---- MODULE Spec2Model ----
(***************************************************************************)
(* sqlitepie: the connection manager (engines.py) with its process-wide    *)
(* lock registry (constants.LOCKS), modelled as threads that construct     *)
(* managers and call their methods.  A thread switch can happen between    *)
(* any two steps of Engine._get_lock and while a thread is inside the      *)
(* locked section of a statement call; every other method runs from its    *)
(* blocking lock acquisition to its return as one step.                    *)
(*                                                                         *)
(* The schema objects (schema.py) are a heap of objects whose attributes   *)
(* are stored through the descriptors of descriptors.py, and the keyed     *)
(* collections (collections.py) are insertion-ordered sequences of         *)
(* [key, value].  Each constructor, assignment, lookup and collection      *)
(* call is one step and records its arguments and outcome.  SpecSlots      *)
(* explores the attribute slots, SpecTable the construction of tables,     *)
(* SpecCollection the collections, SpecGraph the registration of tables    *)
(* and columns with their parents and the export of the graph, SpecKey     *)
(* the construction of primary-key constraints (constraints.py).           *)
(*                                                                         *)
(* A cursor (engines.SQLiteCursor) is the number of rows of its result and *)
(* how many of them have been read; SpecCursor explores its fetch calls.   *)
(***************************************************************************)
EXTENDS Integers, Sequences, FiniteSets, TLC

\* ------------------------------------------------------------------ bounds
NumThreads == 2
NumManagers == 2
MaxHold == 2

Threads == 1..NumThreads
Managers == 1..NumManagers
\* every lock object is created by some manager's construction
LockIds == 1..NumManagers
\* Python's None: no lock in the registry, no owner of a lock
None == 0

\* ------------------------------------------------------------------ paths
\* A database string: its path components, whether it carries the "file:"
\* prefix and whether it carries a "?key=value" query part.
MemoryDb == [pre |-> FALSE, comps |-> <<":memory:">>, query |-> FALSE]
FileDb == [pre |-> FALSE, comps |-> <<".", "d", "a.db">>, query |-> FALSE]
UriDb == [pre |-> TRUE, comps |-> <<"d", "a.db">>, query |-> TRUE]
BareUriDb == [pre |-> TRUE, comps |-> <<"d", "a.db">>, query |-> FALSE]
Databases == {MemoryDb, FileDb, UriDb, BareUriDb}

\* the constructor arguments explored: database, uri, ensure_folder
Configs ==
    {[database |-> MemoryDb, uri |-> FALSE, ensure |-> TRUE],
     [database |-> MemoryDb, uri |-> FALSE, ensure |-> FALSE],
     [database |-> FileDb, uri |-> FALSE, ensure |-> TRUE],
     [database |-> FileDb, uri |-> FALSE, ensure |-> FALSE],
     [database |-> UriDb, uri |-> TRUE, ensure |-> FALSE],
     [database |-> BareUriDb, uri |-> TRUE, ensure |-> FALSE]}

\* the process's working directory; "/" marks an absolute path
Cwd == <<"/", "w">>
\* the literal in-memory marker that _check_path compares with
MemoryMarker == [pre |-> FALSE, comps |-> <<":memory:">>, query |-> FALSE]
NoPath == [pre |-> FALSE, comps |-> <<>>, query |-> FALSE]

IsDot(c) == c = "."
NotDot(c) == ~IsDot(c)

\* os.path.realpath: make the path absolute against the working directory
\* and drop "." components.  A "file:" prefix or a query part that was not
\* parsed off stays part of the name, so the path is a relative one.
realpath(p) ==
    LET plain == SelectSeq(p.comps, NotDot)
        absolute == (~p.pre) /\ Len(plain) > 0 /\ plain[1] = "/"
    IN [p EXCEPT !.comps = IF absolute THEN plain ELSE Cwd \o plain]

\* utils.parse_uri(value).file: split on "?", strip the "file:" prefix
parse_uri_file(db) == [pre |-> FALSE, comps |-> db.comps, query |-> FALSE]

\* str.split("?") unpacked into two names raises ValueError without a "?"
parse_uri_ok(db) == db.query

\* Engine._get_file_path
get_file_path(database, uri) ==
    IF uri /\ database.pre
    THEN realpath(parse_uri_file(database))
    ELSE realpath(database)

\* os.path.dirname
dirname(p) == [p EXCEPT !.comps = SubSeq(p.comps, 1, Len(p.comps) - 1),
                        !.query = FALSE]

\* ------------------------------------------------------ schema: values
\* how many Schema, Table, Column, View and PrimaryKey objects, and how
\* many collections constructed on their own, a behaviour creates; the
\* longest collection it builds
NumSchemas == 1
NumTables == 2
NumColumns == 2
NumViews == 1
NumKeys == 2
NumColls == 2
MaxLen == 2

\* A Python value: its type, its text (str, bool) and its identity (int,
\* SQLite engine, model object, collection).
NoneValue == [type |-> "NoneType", text |-> "", id |-> 0]
Str(s) == [type |-> "str", text |-> s, id |-> 0]
Bool(b) == [type |-> "bool", text |-> IF b THEN "True" ELSE "False", id |-> 0]
IntValue(i) == [type |-> "int", text |-> "", id |-> i]
SQLiteObj(i) == [type |-> "SQLite", text |-> "", id |-> i]
Object(i) == [type |-> "object", text |-> "", id |-> i]
CollectionRef(i) == [type |-> "collection", text |-> "", id |-> i]

\* the identities of the model objects, by class, and of the collections
SchemaIds == 1..NumSchemas
TableIds == (NumSchemas + 1)..(NumSchemas + NumTables)
ColumnIds == (NumSchemas + NumTables + 1)..(NumSchemas + NumTables + NumColumns)
ViewIds == (NumSchemas + NumTables + NumColumns + 1)..
               (NumSchemas + NumTables + NumColumns + NumViews)
KeyIds == (NumSchemas + NumTables + NumColumns + NumViews + 1)..
              (NumSchemas + NumTables + NumColumns + NumViews + NumKeys)
ObjIds == SchemaIds \cup TableIds \cup ColumnIds \cup ViewIds \cup KeyIds
\* a schema's four collections, a table's columns, the collections
\* constructed on their own
SchemaCollIds == 1..(4 * NumSchemas)
TableCollIds == (4 * NumSchemas + 1)..(4 * NumSchemas + NumTables)
FreeCollIds == (4 * NumSchemas + NumTables + 1)..
                   (4 * NumSchemas + NumTables + NumColls)
CollIds == SchemaCollIds \cup TableCollIds \cup FreeCollIds

\* an instance __dict__ with no entry; an object, a collection not yet
\* constructed
EmptyDict == [a \in {} |-> NoneValue]
NoObject == [cls |-> "none", dict |-> EmptyDict]
NoCollection == [cls |-> "none", fields |-> <<>>]
\* the last schema-level operation: what was called on which object or
\* collection, with which attribute or key and value, the error it raised
\* and the value it returned
NoSchemaCall == [op |-> "none", target |-> 0, attr |-> "", value |-> NoneValue,
            other |-> 0, args |-> <<>>, kwargs |-> <<>>,
            raised |-> "none", result |-> NoneValue]

\* ------------------------------------------------------------------ cursors
NumCursors == 2
MaxRows == 3
CursorIds == 1..NumCursors
\* size not given to fetchmany: the cursor's arraysize is used
NoSize == 0
\* a SQLiteCursor: st is "none" before the query that returns it, rows the
\* number of rows of its result, pos the number of rows read so far
NoCursor == [st |-> "none", rows |-> 0, pos |-> 0, arraysize |-> 1]
\* the fetch that completed last: the cursor, the size given, the error
\* raised, the rows returned (their numbers, <<>> for None or an empty
\* list) and the rows read before the call
NoFetch == [op |-> "none", c |-> 0, size |-> NoSize, raised |-> "none",
            rows |-> <<>>, before |-> 0]

\* ------------------------------------------------------------------ state
VARIABLES
    LOCKS,      \* constants.LOCKS: canonical path -> lock object (None: no entry)
    nextLock,   \* identity of the next RLock() object
    locks,      \* each RLock: owning thread and recursion count
    mgr,        \* the SQLite objects: configuration, lock, connection
    dirs,       \* the directories that exist on the file system
    pc,         \* where each thread is
    cur,        \* the call each thread is in
    blocks,     \* each thread's open managed-use blocks, innermost last
    last,       \* the call that completed last, with its outcome
    objs,       \* the Schema, Table, Column and View objects: class, __dict__
    colls,      \* the collections: class and _fields (ordered key, value)
    slast,      \* the schema-level operation that completed last
    cursors,    \* the cursors returned by query
    clast       \* the cursor call that completed last

\* the connection manager's state, the schema objects' state
evars == <<LOCKS, nextLock, locks, mgr, dirs, pc, cur, blocks, last>>
svars == <<objs, colls, slast>>
cvars == <<cursors, clast>>
vars == <<LOCKS, nextLock, locks, mgr, dirs, pc, cur, blocks, last,
          objs, colls, slast, cursors, clast>>

Keys == {get_file_path(d, u) : d \in Databases, u \in BOOLEAN}

NoManager == [st |-> "none", database |-> MemoryDb, uri |-> FALSE,
              ensure |-> FALSE, file_path |-> NoPath, thread_lock |-> None,
              conn |-> "unset", connThread |-> None]
DeadManager == [NoManager EXCEPT !.st = "dead"]

\* op, m: the method and its manager; instance: the lock a frame of
\* _get_lock created; before: the hold count when the call began; first: a
\* manager for the same path that was live when this construction began
NoCall == [op |-> "none", m |-> None, instance |-> None, before |-> 0,
           first |-> None]
\* op: the method; raised: the error that reached the caller; engine: the
\* error the engine raised; leak: the caller's hold count on the manager's
\* lock after the call minus the one before it (for __exit__: before the
\* block was entered); entry: the hold count before the block was entered;
\* folder: what _check_path did; calls: engine statement invocations; conn:
\* the manager's connection afterwards; memory: the manager's database is
\* the in-memory one; depth: the caller's blocks still open
NoLast == [op |-> "none", raised |-> "none", engine |-> "none", leak |-> 0,
           entry |-> 0, folder |-> "none", calls |-> 0, conn |-> "unset",
           memory |-> FALSE, depth |-> 0]

Init ==
    /\ LOCKS = [k \in Keys |-> None]
    /\ nextLock = 1
    /\ locks = [l \in LockIds |-> [owner |-> None, count |-> 0]]
    /\ mgr = [m \in Managers |-> NoManager]
    /\ dirs = {[pre |-> FALSE, comps |-> Cwd, query |-> FALSE]}
    /\ pc = [t \in Threads |-> "idle"]
    /\ cur = [t \in Threads |-> NoCall]
    /\ blocks = [t \in Threads |-> <<>>]
    /\ last = NoLast
    /\ objs = [o \in ObjIds |-> NoObject]
    /\ colls = [c \in CollIds |-> NoCollection]
    /\ slast = NoSchemaCall
    /\ cursors = [c \in CursorIds |-> NoCursor]
    /\ clast = NoFetch

\* ------------------------------------------------------------------ RLock
\* threading.RLock.acquire() returns at once for the owner and for a free
\* lock, and blocks otherwise
CanAcquire(lk, t) == lk.owner \in {None, t} /\ lk.count < MaxHold

RLockAcquire(lk, t) == [owner |-> t, count |-> lk.count + 1]

RLockRelease(lk) ==
    IF lk.count = 1 THEN [owner |-> None, count |-> 0]
    ELSE [lk EXCEPT !.count = @ - 1]

HoldOf(lk, t) == IF lk.owner = t THEN lk.count ELSE 0

\* the recursion level at which thread t holds lock l
Hold(lks, t, l) == IF l # None /\ lks[l].owner = t THEN lks[l].count ELSE 0

\* ------------------------------------------------------------------ registry
\* A lock object stays alive while a manager holds it in _thread_lock or a
\* frame of _get_lock holds it in `instance`.
Referenced(l, mgrs, curs) ==
    \/ \E m \in Managers : mgrs[m].st \in {"init", "live"} /\ mgrs[m].thread_lock = l
    \/ \E t \in Threads : curs[t].instance = l

\* WeakValueDictionary: an entry goes when its value is no longer referenced
Sweep(reg, mgrs, curs) ==
    [k \in Keys |-> IF reg[k] # None /\ Referenced(reg[k], mgrs, curs)
                    THEN reg[k] ELSE None]

\* ------------------------------------------------------------------ acquire
\* sqlite3.connect(): the in-memory database needs no file; a file
\* database needs its directory
InMemory(database, uri) ==
    (IF uri /\ database.pre THEN parse_uri_file(database) ELSE database)
        = MemoryMarker

\* SQLite._check_path: whether ensure_folder() is called
check_path_calls(ensure, file_path) == ensure /\ (file_path # MemoryMarker)

\* utils.ensure_folder / make_dirs on the directory of the path: "exists",
\* "created", or "failed" when makedirs raises (mkdirOk = FALSE)
ensure_folder(path, ds, mkdirOk) ==
    LET d == dirname(realpath(path))
    IN IF d \in ds THEN [folder |-> "exists", dirs |-> ds]
       ELSE IF mkdirOk THEN [folder |-> "created", dirs |-> ds \cup {d}]
       ELSE [folder |-> "failed", dirs |-> ds]

\* SQLite.acquire() by thread t on manager record mg, from taking the lock
\* to the return or raise: the lock afterwards, the directories afterwards,
\* the outcome.  connectOk = FALSE: the engine refuses the connection.
acquire(mg, t, lk, ds, mkdirOk, connectOk) ==
    LET lk1 == RLockAcquire(lk, t)
        fold == IF check_path_calls(mg.ensure, mg.file_path)
                THEN ensure_folder(mg.file_path, ds, mkdirOk)
                ELSE [folder |-> "skipped", dirs |-> ds]
        opens == connectOk /\ (InMemory(mg.database, mg.uri)
                               \/ dirname(mg.file_path) \in fold.dirs)
    IN IF fold.folder = "failed"
       THEN \* _check_path is outside the try: no finally runs
            [lock |-> lk1, dirs |-> fold.dirs, folder |-> fold.folder,
             raised |-> "OSError", engine |-> "none"]
       ELSE \* try / except Error: raise / finally: release
            [lock |-> RLockRelease(lk1), dirs |-> fold.dirs,
             folder |-> fold.folder,
             raised |-> IF opens THEN "none" ELSE "OperationalError",
             engine |-> IF opens THEN "none" ELSE "OperationalError"]

\* ------------------------------------------------------------------ __init__
Live(m) == mgr[m].st = "live"

\* the first live manager whose canonical path is key, if there is one
FirstLive(key) ==
    LET same == {m \in Managers : Live(m) /\ mgr[m].file_path = key}
    IN IF same = {} THEN None
       ELSE CHOOSE m \in same : \A m2 \in same : m <= m2

\* SQLite.__init__ / Engine.__init__ up to the test `key not in LOCKS`
InitBegin(t, m, cfg) ==
    LET database == cfg.database
        uri == cfg.uri
        ensure == cfg.ensure
    IN
    /\ pc[t] = "idle"
    /\ mgr[m].st = "none"
    /\ \A m2 \in Managers : m2 < m => mgr[m2].st # "none"
    /\ IF uri /\ database.pre /\ ~parse_uri_ok(database)
       THEN /\ mgr' = [mgr EXCEPT ![m] = DeadManager]
            /\ last' = [NoLast EXCEPT !.op = "__init__",
                                      !.raised = "ValueError"]
            /\ UNCHANGED <<pc, cur>>
       ELSE LET key == get_file_path(database, uri)
            IN /\ mgr' = [mgr EXCEPT ![m] =
                            [NoManager EXCEPT !.st = "init",
                                              !.database = database,
                                              !.uri = uri,
                                              !.ensure = ensure,
                                              !.file_path = key]]
               /\ cur' = [cur EXCEPT ![t] = [NoCall EXCEPT !.op = "__init__",
                                                           !.m = m,
                                                           !.first = FirstLive(key)]]
               /\ pc' = [pc EXCEPT ![t] =
                           IF LOCKS[key] = None THEN "get_lock_create"
                           ELSE "get_lock_get"]
               /\ UNCHANGED last
    /\ UNCHANGED <<LOCKS, nextLock, locks, dirs, blocks>>
    /\ UNCHANGED <<svars, cvars>>

\* the construction of the first manager object of the process
InitFirst(t, m, cfg) ==
    /\ \A m2 \in Managers : mgr[m2].st = "none"
    /\ InitBegin(t, m, cfg)

\* Engine._get_lock: instance = RLock(); LOCKS.update({key: instance})
GetLockCreate(t) ==
    /\ pc[t] = "get_lock_create"
    /\ LOCKS' = [LOCKS EXCEPT ![mgr[cur[t].m].file_path] = nextLock]
    /\ cur' = [cur EXCEPT ![t].instance = nextLock]
    /\ nextLock' = nextLock + 1
    /\ pc' = [pc EXCEPT ![t] = "get_lock_get"]
    /\ UNCHANGED <<locks, mgr, dirs, blocks, last>>
    /\ UNCHANGED <<svars, cvars>>

\* Engine._get_lock: return LOCKS.get(key), stored in self._thread_lock
GetLockReturn(t) ==
    /\ pc[t] = "get_lock_get"
    /\ LET m == cur[t].m
           mgr1 == [mgr EXCEPT ![m].thread_lock = LOCKS[mgr[m].file_path]]
           cur1 == [cur EXCEPT ![t].instance = None]
       IN /\ mgr' = mgr1
          /\ cur' = cur1
          /\ LOCKS' = Sweep(LOCKS, mgr1, cur1)
    /\ pc' = [pc EXCEPT ![t] = "init_acquire"]
    /\ UNCHANGED <<nextLock, locks, dirs, blocks, last>>
    /\ UNCHANGED <<svars, cvars>>

\* Engine.__init__: self._connection = self.acquire(...)
InitAcquire(t, mkdirOk, connectOk) ==
    /\ pc[t] = "init_acquire"
    /\ LET m == cur[t].m
           l == mgr[m].thread_lock
       IN IF l = None
          THEN \* None.acquire(): the constructor raises, the object is dropped
               LET mgr1 == [mgr EXCEPT ![m] = DeadManager]
               IN /\ mgr' = mgr1
                  /\ LOCKS' = Sweep(LOCKS, mgr1, cur)
                  /\ last' = [NoLast EXCEPT
                                 !.op = "__init__",
                                 !.raised = "AttributeError",
                                 !.memory = InMemory(mgr[m].database, mgr[m].uri)]
                  /\ UNCHANGED <<locks, dirs>>
          ELSE /\ CanAcquire(locks[l], t)
               /\ LET r == acquire(mgr[m], t, locks[l], dirs, mkdirOk, connectOk)
                      mgr1 == [mgr EXCEPT ![m] =
                                 IF r.raised = "none"
                                 THEN [@ EXCEPT !.st = "live", !.conn = "open",
                                                !.connThread = t]
                                 ELSE DeadManager]
                  IN /\ mgr' = mgr1
                     /\ locks' = [locks EXCEPT ![l] = r.lock]
                     /\ dirs' = r.dirs
                     /\ LOCKS' = Sweep(LOCKS, mgr1, cur)
                     /\ last' = [NoLast EXCEPT
                                    !.op = "__init__",
                                    !.raised = r.raised,
                                    !.engine = r.engine,
                                    !.leak = HoldOf(r.lock, t) - Hold(locks, t, l),
                                    !.folder = r.folder,
                                    !.conn = mgr1[m].conn,
                                    !.memory = InMemory(mgr[m].database,
                                                        mgr[m].uri)]
    /\ pc' = [pc EXCEPT ![t] = "idle"]
    /\ cur' = [cur EXCEPT ![t] = NoCall]
    /\ UNCHANGED <<nextLock, blocks>>
    /\ UNCHANGED <<svars, cvars>>

\* ------------------------------------------------------------------ engine
\* sqlite3 with check_same_thread=True (the default of SQLite.__init__): a
\* closed connection, or one used from another thread than its creator,
\* raises ProgrammingError
conn_error(mg, t) ==
    IF mg.conn = "open" /\ mg.connThread = t THEN "none" ELSE "ProgrammingError"

\* Connection.close(): refused from another thread, harmless when repeated
close_error(mg, t) ==
    IF mg.connThread = t THEN "none" ELSE "ProgrammingError"

StatementErrors == {"none", "OperationalError"}
Statements == {"query", "execute", "execute_many", "execute_script"}

\* ------------------------------------------------------------------ release
\* release() as it would be with `raise` in its except clause
release_reraising(mg, t, lk) ==
    LET lk1 == RLockAcquire(lk, t)
        err == close_error(mg, t)
    IN [lock |-> RLockRelease(lk1),
        conn |-> IF err = "none" THEN "closed" ELSE mg.conn,
        raised |-> err, engine |-> err]

\* SQLite.release(connection) on the manager's own connection: the lock and
\* the connection afterwards, the error that reaches the caller
release(mg, t, lk) ==
    LET lk1 == RLockAcquire(lk, t)
        err == close_error(mg, t)
    IN \* except Error: log a warning / finally: release
       [lock |-> RLockRelease(lk1),
        conn |-> IF err = "none" THEN "closed" ELSE mg.conn,
        raised |-> "none", engine |-> err]

\* ------------------------------------------------------------------ statements
\* SQLite._get_cursor, called with the lock already held at lk
get_cursor(mg, t, lk) ==
    LET lk1 == RLockAcquire(lk, t)
        err == IF mg.conn = "unset" THEN "AttributeError" ELSE conn_error(mg, t)
    IN \* except Error: raise / finally: release
       [lock |-> RLockRelease(lk1), raised |-> err]

\* SQLite.query after its lock acquisition (lk: the lock as held then)
query(mg, t, lk, stmtErr) ==
    LET c == get_cursor(mg, t, lk)
    IN IF c.raised # "none"
       THEN \* _get_cursor is outside the try: no finally runs
            [lock |-> c.lock, raised |-> c.raised,
             engine |-> IF c.raised = "AttributeError" THEN "none" ELSE c.raised,
             calls |-> 0]
       ELSE \* try: cursor.execute / except Error: raise / finally: release
            [lock |-> RLockRelease(c.lock), raised |-> stmtErr,
             engine |-> stmtErr, calls |-> 1]

\* execute() as it would be with the release after the try instead of in a
\* finally clause
execute_without_finally(mg, t, lk, stmtErr) ==
    LET err == IF mg.conn = "unset" THEN "AttributeError"
               ELSE IF conn_error(mg, t) # "none" THEN conn_error(mg, t)
               ELSE stmtErr
    IN [lock |-> IF err = "none" THEN RLockRelease(lk) ELSE lk,
        raised |-> err,
        engine |-> IF err = "AttributeError" THEN "none" ELSE err,
        calls |-> IF mg.conn = "unset" THEN 0 ELSE 1]

\* SQLite.execute / execute_many / execute_script after the lock acquisition
execute(mg, t, lk, stmtErr) ==
    LET err == IF mg.conn = "unset" THEN "AttributeError"
               ELSE IF conn_error(mg, t) # "none" THEN conn_error(mg, t)
               ELSE stmtErr
    IN \* try: with connection: execute / except Error: raise / finally: release
       [lock |-> RLockRelease(lk), raised |-> err,
        engine |-> IF err = "AttributeError" THEN "none" ELSE err,
        calls |-> IF mg.conn = "unset" THEN 0 ELSE 1]

\* query / execute / execute_many / execute_script: take the lock, log
StmtBegin(t, m, op) ==
    /\ pc[t] = "idle"
    /\ mgr[m].st = "live"
    /\ CanAcquire(locks[mgr[m].thread_lock], t)
    /\ locks' = [locks EXCEPT ![mgr[m].thread_lock] = RLockAcquire(@, t)]
    /\ cur' = [cur EXCEPT ![t] = [NoCall EXCEPT
                 !.op = op, !.m = m,
                 !.before = Hold(locks, t, mgr[m].thread_lock)]]
    /\ pc' = [pc EXCEPT ![t] = "in_stmt"]
    /\ UNCHANGED <<LOCKS, nextLock, mgr, dirs, blocks, last>>
    /\ UNCHANGED <<svars, cvars>>

\* ... delegate to the engine, release the lock, return or raise
StmtEnd(t, stmtErr) ==
    /\ pc[t] = "in_stmt"
    /\ LET m == cur[t].m
           l == mgr[m].thread_lock
           r == IF cur[t].op = "query" THEN query(mgr[m], t, locks[l], stmtErr)
                ELSE execute(mgr[m], t, locks[l], stmtErr)
       IN /\ locks' = [locks EXCEPT ![l] = r.lock]
          /\ last' = [NoLast EXCEPT
                        !.op = cur[t].op, !.raised = r.raised,
                        !.engine = r.engine,
                        !.leak = HoldOf(r.lock, t) - cur[t].before,
                        !.calls = r.calls,
                        !.conn = mgr[m].conn,
                        !.memory = InMemory(mgr[m].database, mgr[m].uri),
                        !.depth = Len(blocks[t])]
    /\ pc' = [pc EXCEPT ![t] = "idle"]
    /\ cur' = [cur EXCEPT ![t] = NoCall]
    /\ UNCHANGED <<LOCKS, nextLock, mgr, dirs, blocks>>
    /\ UNCHANGED <<svars, cvars>>

\* ------------------------------------------------------------------ calls
\* a direct call of acquire(): the new connection goes to the caller
Acquire(t, m, mkdirOk, connectOk) ==
    /\ pc[t] = "idle"
    /\ mgr[m].st = "live"
    /\ LET l == mgr[m].thread_lock
           r == acquire(mgr[m], t, locks[l], dirs, mkdirOk, connectOk)
       IN /\ CanAcquire(locks[l], t)
          /\ locks' = [locks EXCEPT ![l] = r.lock]
          /\ dirs' = r.dirs
          /\ last' = [NoLast EXCEPT
                        !.op = "acquire", !.raised = r.raised,
                        !.engine = r.engine, !.leak = HoldOf(r.lock, t) - Hold(locks, t, l), !.folder = r.folder,
                        !.conn = mgr[m].conn,
                        !.memory = InMemory(mgr[m].database, mgr[m].uri),
                        !.depth = Len(blocks[t])]
    /\ UNCHANGED <<LOCKS, nextLock, mgr, pc, cur, blocks>>
    /\ UNCHANGED <<svars, cvars>>

\* a direct call of release() on the manager's attached connection
Release(t, m) ==
    /\ pc[t] = "idle"
    /\ mgr[m].st = "live"
    /\ mgr[m].conn # "unset"
    /\ LET l == mgr[m].thread_lock
           r == release(mgr[m], t, locks[l])
       IN /\ CanAcquire(locks[l], t)
          /\ locks' = [locks EXCEPT ![l] = r.lock]
          /\ mgr' = [mgr EXCEPT ![m].conn = r.conn]
          /\ last' = [NoLast EXCEPT
                        !.op = "release", !.raised = r.raised,
                        !.engine = r.engine, !.leak = HoldOf(r.lock, t) - Hold(locks, t, l), !.conn = r.conn,
                        !.depth = Len(blocks[t])]
    /\ UNCHANGED <<LOCKS, nextLock, dirs, pc, cur, blocks>>
    /\ UNCHANGED <<svars, cvars>>

\* Engine.close(): with the lock, release and detach the connection if any
Close(t, m) ==
    /\ pc[t] = "idle"
    /\ mgr[m].st = "live"
    /\ LET l == mgr[m].thread_lock
           lk1 == RLockAcquire(locks[l], t)
           r == IF mgr[m].conn # "unset" THEN release(mgr[m], t, lk1)
                ELSE [lock |-> lk1, conn |-> "unset", raised |-> "none",
                      engine |-> "none"]
       IN /\ CanAcquire(locks[l], t)
          /\ locks' = [locks EXCEPT ![l] = RLockRelease(r.lock)]
          /\ mgr' = [mgr EXCEPT ![m].conn = "unset", ![m].connThread = None]
          /\ last' = [NoLast EXCEPT
                        !.op = "close", !.raised = r.raised,
                        !.engine = r.engine,
                        !.leak = HoldOf(RLockRelease(r.lock), t)
                                 - Hold(locks, t, l),
                        !.depth = Len(blocks[t])]
    /\ UNCHANGED <<LOCKS, nextLock, dirs, pc, cur, blocks>>
    /\ UNCHANGED <<svars, cvars>>

\* ------------------------------------------------------------------ with
\* Engine.__enter__: take the lock, attach a connection if there is none
Enter(t, m, mkdirOk, connectOk) ==
    /\ pc[t] = "idle"
    /\ mgr[m].st = "live"
    /\ LET l == mgr[m].thread_lock
           lk1 == RLockAcquire(locks[l], t)
           r == IF mgr[m].conn = "unset"
                THEN acquire(mgr[m], t, lk1, dirs, mkdirOk, connectOk)
                ELSE [lock |-> lk1, dirs |-> dirs, folder |-> "none",
                      raised |-> "none", engine |-> "none"]
           \* except Error: release and raise; anything else passes through
           lk2 == IF r.raised = "OperationalError" THEN RLockRelease(r.lock)
                  ELSE r.lock
       IN /\ CanAcquire(locks[l], t)
          \* acquire() takes the lock once more
          /\ mgr[m].conn = "unset" => lk1.count < MaxHold
          /\ locks' = [locks EXCEPT ![l] = lk2]
          /\ dirs' = r.dirs
          /\ mgr' = IF mgr[m].conn = "unset" /\ r.raised = "none"
                    THEN [mgr EXCEPT ![m].conn = "open", ![m].connThread = t]
                    ELSE mgr
          /\ blocks' = IF r.raised = "none"
                       THEN [blocks EXCEPT ![t] =
                               Append(@, [m |-> m, entry |-> Hold(locks, t, l)])]
                       ELSE blocks
          /\ last' = [NoLast EXCEPT
                        !.op = "__enter__", !.raised = r.raised,
                        !.engine = r.engine,
                        !.leak = HoldOf(lk2, t) - Hold(locks, t, l),
                        !.entry = Hold(locks, t, l),
                        !.folder = r.folder, !.conn = mgr'[m].conn,
                        !.memory = InMemory(mgr[m].database, mgr[m].uri),
                        !.depth = Len(blocks'[t])]
    /\ UNCHANGED <<LOCKS, nextLock, pc, cur>>
    /\ UNCHANGED <<svars, cvars>>

\* Engine.__exit__ of the innermost open block, reached when the block ends
\* or an error leaves it (the exception arguments are not looked at):
\* release and detach the connection if any, release the lock
Exit(t) ==
    /\ pc[t] = "idle"
    /\ Len(blocks[t]) > 0
    /\ LET b == blocks[t][Len(blocks[t])]
           m == b.m
           l == mgr[m].thread_lock
           r == IF mgr[m].conn # "unset" THEN release(mgr[m], t, locks[l])
                ELSE [lock |-> locks[l], conn |-> "unset", raised |-> "none",
                      engine |-> "none"]
           lk2 == RLockRelease(r.lock)
       IN /\ locks' = [locks EXCEPT ![l] = lk2]
          /\ mgr' = [mgr EXCEPT ![m].conn = "unset", ![m].connThread = None]
          /\ blocks' = [blocks EXCEPT ![t] = SubSeq(@, 1, Len(@) - 1)]
          /\ last' = [NoLast EXCEPT
                        !.op = "__exit__", !.raised = r.raised,
                        !.engine = r.engine,
                        !.leak = HoldOf(lk2, t) - b.entry,
                        !.entry = b.entry,
                        !.conn = "unset",
                        !.depth = Len(blocks[t]) - 1]
    /\ UNCHANGED <<LOCKS, nextLock, dirs, pc, cur>>
    /\ UNCHANGED <<svars, cvars>>

\* the last reference to a manager nobody is using goes away
Drop(m) ==
    /\ mgr[m].st = "live"
    /\ \A t \in Threads :
          /\ cur[t].m # m
          /\ \A i \in 1..Len(blocks[t]) : blocks[t][i].m # m
    /\ LET mgr1 == [mgr EXCEPT ![m] = DeadManager]
       IN /\ mgr' = mgr1
          /\ LOCKS' = Sweep(LOCKS, mgr1, cur)
    /\ UNCHANGED <<nextLock, locks, dirs, pc, cur, blocks, last>>
    /\ UNCHANGED <<svars, cvars>>

\* ------------------------------------------------------------------ specifications
\* One manager object, constructed once and then used by all the threads
\* through every method.
Next ==
    \/ \E t \in Threads, m \in Managers, cfg \in Configs : InitFirst(t, m, cfg)
    \/ \E t \in Threads : GetLockCreate(t)
    \/ \E t \in Threads : GetLockReturn(t)
    \/ \E t \in Threads, mkdirOk \in BOOLEAN, connectOk \in BOOLEAN :
            InitAcquire(t, mkdirOk, connectOk)
    \/ \E t \in Threads, m \in Managers, op \in Statements : StmtBegin(t, m, op)
    \/ \E t \in Threads, stmtErr \in StatementErrors : StmtEnd(t, stmtErr)
    \/ \E t \in Threads, m \in Managers, mkdirOk \in BOOLEAN,
          connectOk \in BOOLEAN : Acquire(t, m, mkdirOk, connectOk)
    \/ \E t \in Threads, m \in Managers : Release(t, m)
    \/ \E t \in Threads, m \in Managers : Close(t, m)
    \/ \E t \in Threads, m \in Managers, mkdirOk \in BOOLEAN,
          connectOk \in BOOLEAN : Enter(t, m, mkdirOk, connectOk)
    \/ \E t \in Threads : Exit(t)
    \/ \E m \in Managers : Drop(m)

Spec == Init /\ [][Next]_vars

\* Several manager objects, constructed by threads that run concurrently,
\* and the statements the threads then execute through them.
RegistryNext ==
    \/ \E t \in Threads, m \in Managers, cfg \in Configs : InitBegin(t, m, cfg)
    \/ \E t \in Threads : GetLockCreate(t)
    \/ \E t \in Threads : GetLockReturn(t)
    \/ \E t \in Threads, mkdirOk \in BOOLEAN, connectOk \in BOOLEAN :
            InitAcquire(t, mkdirOk, connectOk)
    \/ \E t \in Threads, m \in Managers, op \in Statements : StmtBegin(t, m, op)
    \/ \E t \in Threads, stmtErr \in StatementErrors : StmtEnd(t, stmtErr)
    \/ \E m \in Managers : Drop(m)

SpecRegistry == Init /\ [][RegistryNext]_vars

\* ------------------------------------------------------------------ claims
\* a manager that has been given its lock
HasLock(m) == mgr[m].st \in {"init", "live"} /\ mgr[m].thread_lock # None

\* C1: managers constructed for the same canonical path, in whatever
\* interleaving their threads run _get_lock, hold the identical lock object.
C1_OneLockPerPath ==
    \A m1 \in Managers, m2 \in Managers :
        (HasLock(m1) /\ HasLock(m2) /\ mgr[m1].file_path = mgr[m2].file_path)
            => mgr[m1].thread_lock = mgr[m2].thread_lock

\* C2: at every moment at most one thread is inside a statement call
\* (query, execute, execute_many, execute_script) for one resolved path.
C2_StatementsSerialized ==
    \A t1 \in Threads, t2 \in Threads :
        (t1 # t2 /\ pc[t1] = "in_stmt" /\ pc[t2] = "in_stmt")
            => mgr[cur[t1].m].file_path # mgr[cur[t2].m].file_path

\* C3: whatever the outcome of query (success, no cursor, statement error),
\* the caller's hold count on the lock afterwards equals the one before.
C3_QueryReleasesLock == last.op = "query" => last.leak = 0

ExecuteOps == {"execute", "execute_many", "execute_script"}

\* C4: whatever the outcome of execute, execute_many or execute_script, the
\* caller's hold count afterwards equals the one before; an engine error
\* reaches the caller unchanged, after one engine invocation.
C4_ExecuteReleasesAndReraises ==
    last.op \in ExecuteOps =>
        /\ last.leak = 0
        /\ last.calls <= 1
        /\ last.engine # "none" => (last.raised = last.engine /\ last.calls = 1)

\* C4 witness: an execute that the engine refused has returned.
C4_Witness ==
    /\ last.op = "execute"
    /\ last.engine = "OperationalError"
    /\ last.raised = "OperationalError"

\* C5: whatever the outcome of acquire (success, directory creation failed,
\* connection refused), the lock it took is released again; on failure the
\* error is raised and the manager has no connection attached.
C5_AcquireReleasesLock ==
    /\ last.op \in {"acquire", "__init__"} => last.leak = 0
    /\ (last.op \in {"__init__", "__enter__"} /\ last.raised # "none")
            => last.conn = "unset"

\* C6: a thread holds the lock of every block it has open, and when a block
\* has been left the connection is released and detached and the thread's
\* hold count is what it was before the block was entered.  ("Closed" is
\* read as: release() was applied; C8 is about a close that fails.)
C6_ScopedUseRestores ==
    /\ \A t \in Threads : \A i \in 1..Len(blocks[t]) :
            Hold(locks, t, mgr[blocks[t][i].m].thread_lock) > 0
    /\ last.op = "__exit__" => (last.conn = "unset" /\ last.leak = 0)

\* C7: a thread inside a block owns the lock, so none of its calls on the
\* manager waits for it, and when the outermost block (entered with hold
\* count zero) has been left the hold count is zero again.
C7_ReentrantThenFree ==
    /\ \A t \in Threads : \A i \in 1..Len(blocks[t]) :
            locks[mgr[blocks[t][i].m].thread_lock].owner = t
    /\ (last.op = "__exit__" /\ last.depth = 0 /\ last.entry = 0)
            => last.leak = 0

\* C8: release() lets no error reach the caller, also when closing the
\* connection failed, and the lock it took is released again.
C8_ReleaseSwallows ==
    last.op = "release" => (last.raised = "none" /\ last.leak = 0)

\* C8 witness: a release() whose close was refused by the engine has returned.
C8_Witness == last.op = "release" /\ last.engine = "ProgrammingError"

\* C9: a manager constructed while another manager for the same resolved
\* path is live gets that manager's lock, and the registry neither replaces
\* nor drops the lock of a path while a manager for that path stays live.
C9_SharedLockWhileLive ==
    [][/\ \A t \in Threads :
            (/\ pc[t] = "get_lock_get"
             /\ pc'[t] = "init_acquire"
             /\ cur[t].first # None
             /\ Live(cur[t].first))
                => mgr'[cur[t].m].thread_lock = mgr[cur[t].first].thread_lock
       /\ \A m \in Managers :
            (Live(m) /\ mgr'[m].st = "live")
                => /\ LOCKS[mgr[m].file_path] # None
                   /\ LOCKS'[mgr[m].file_path] = LOCKS[mgr[m].file_path]]_vars

\* C10: for the in-memory database the directory step of acquire is not
\* run, with ensure_folder on or off.
C10_MemorySkipsFolder == last.memory => last.folder \in {"none", "skipped"}

\* ============================================================ descriptors
\* constants.SCHEMA_NAME_LIST
SCHEMA_NAME_LIST == {"main", "temp"}

\* constants.ON_CONFLICT and constants.ORDER
ON_CONFLICT == {"ROLLBACK", "ABORT", "FAIL", "IGNORE", "REPLACE"}
ORDER == {"ASC", "DESC"}

\* str.upper() on the strings used here
upper(text) ==
    CASE text = "fail" -> "FAIL"
      [] text = "Abort" -> "ABORT"
      [] text = "asc" -> "ASC"
      [] text = "nope" -> "NOPE"
      [] text = "sideways" -> "SIDEWAYS"
      [] OTHER -> text

\* str.lower() on the strings used here
lower(text) ==
    CASE text = "MAIN" -> "main"
      [] text = "Temp" -> "temp"
      [] OTHER -> text

\* Toggle(fallback = None)
NoFallback == ""

\* The descriptor classes of descriptors.py: rule names the _check_value in
\* force, immutable whether Immutable is among the bases, toggle whether
\* Toggle is, fallback the attribute named at construction.
ImmutableVar ==
    [rule |-> "any", immutable |-> TRUE, toggle |-> FALSE,
     fallback |-> NoFallback]
ImmutableStringVar ==
    [rule |-> "str", immutable |-> TRUE, toggle |-> FALSE,
     fallback |-> NoFallback]
ImmutableBoolVar ==
    [rule |-> "bool", immutable |-> TRUE, toggle |-> FALSE,
     fallback |-> NoFallback]
ToggleVar(fallback) ==
    [rule |-> "any", immutable |-> TRUE, toggle |-> TRUE,
     fallback |-> fallback]
ToggleStringVar(fallback) ==
    [rule |-> "str", immutable |-> TRUE, toggle |-> TRUE,
     fallback |-> fallback]
SchemaName ==
    [rule |-> "schema_name", immutable |-> TRUE, toggle |-> FALSE,
     fallback |-> NoFallback]
SQLiteEngine(fallback) ==
    [rule |-> "engine", immutable |-> TRUE, toggle |-> TRUE,
     fallback |-> fallback]

\* the managed attributes of each class, along its bases (schema.py)
ModelSlots == [name |-> ImmutableStringVar]
BaseSchemaSlots ==
    [name |-> SchemaName, engine |-> SQLiteEngine(NoFallback),
     tables |-> ImmutableVar, indexes |-> ImmutableVar,
     views |-> ImmutableVar, triggers |-> ImmutableVar]
BaseItemSlots ==
    [key |-> ToggleStringVar("name"), parent |-> ImmutableVar] @@ ModelSlots
SchemaItemSlots ==
    [parent |-> ImmutableVar, schema |-> ToggleVar("parent"),
     engine |-> SQLiteEngine("schema")] @@ BaseItemSlots
TableSlots ==
    [row_id |-> ImmutableBoolVar, columns |-> ImmutableVar] @@ SchemaItemSlots
ColumnSlots ==
    [type |-> ImmutableStringVar, null |-> ImmutableBoolVar,
     primary |-> ImmutableVar, unique |-> ImmutableBoolVar,
     index |-> ImmutableBoolVar, table |-> ImmutableVar] @@ BaseItemSlots
\* constraints.PrimaryKey, along Constraint, Model and OnConflict
PrimaryKeySlots ==
    [name |-> ImmutableStringVar, __type_name__ |-> ImmutableStringVar,
     on_conflict |-> ImmutableStringVar, order |-> ImmutableStringVar,
     autoincrement |-> ImmutableBoolVar]
Slots(cls) ==
    CASE cls = "Schema" -> BaseSchemaSlots
      [] cls = "PrimaryKey" -> PrimaryKeySlots
      [] cls = "Table" -> TableSlots
      [] cls = "Column" -> ColumnSlots
      [] OTHER -> SchemaItemSlots

\* Model.__type_name__ / Collection.__type_name__: the class name in lower
\* case
type_name(cls) ==
    CASE cls = "Schema" -> "schema"
      [] cls = "Table" -> "table"
      [] cls = "Column" -> "column"
      [] cls = "View" -> "view"
      [] cls = "Collection" -> "collection"
      [] cls = "Tables" -> "tables"
      [] cls = "Columns" -> "columns"
      [] cls = "Indexes" -> "indexes"
      [] cls = "Views" -> "views"
      [] cls = "Triggers" -> "triggers"
      [] OTHER -> ""

\* instance.__dict__.get(attribute): None when the key is missing
dict_get(d, attr) == IF attr \in DOMAIN d THEN d[attr] ELSE NoneValue

\* value.__dict__ exists: value is one of the model objects
has_dict(heap, value) ==
    value.type = "object" /\ heap[value.id].cls # "none"

\* a __set__ that stores the value without validating it
check_value_skipped(desc, value) == [raised |-> "none", value |-> value]

\* _check_value of the descriptor: the error raised ("none": accepted) and
\* the value to store (SchemaName stores the lower-cased name)
check_value(desc, value) ==
    CASE desc.rule = "any" ->
           [raised |-> IF value = NoneValue THEN "ValueError" ELSE "none",
            value |-> value]
      [] desc.rule = "str" ->
           [raised |-> IF value.type # "str" \/ value.text = ""
                       THEN "ValueError" ELSE "none",
            value |-> value]
      [] desc.rule = "bool" ->
           [raised |-> IF value.type # "bool" THEN "ValueError" ELSE "none",
            value |-> value]
      [] desc.rule = "schema_name" ->
           IF value.type # "str" \/ value.text = ""
           THEN [raised |-> "ValueError", value |-> value]
           ELSE IF lower(value.text) \notin SCHEMA_NAME_LIST
           THEN [raised |-> "SchemaNameError", value |-> value]
           ELSE [raised |-> "none", value |-> Str(lower(value.text))]
      [] OTHER ->
           [raised |-> IF value.type # "SQLite" THEN "SQLiteEngineError"
                       ELSE "none",
            value |-> value]

\* descriptor.__set__(instance, value) on object o's attribute attr:
\* SQLiteEngine.__set__ first replaces the instance by the object its
\* fallback names; AnyVar.__set__ validates; Immutable.__set__ refuses a key
\* already in the instance's __dict__; Descriptor.__set__ stores.
descriptor_set(desc, attr, heap, o, value) ==
    LET instance == IF desc.rule = "engine" /\ desc.fallback # NoFallback
                    THEN dict_get(heap[o].dict, desc.fallback)
                    ELSE Object(o)
        checked == check_value(desc, value)
    IN IF checked.raised # "none"
       THEN [heap |-> heap, raised |-> checked.raised]
       ELSE IF ~has_dict(heap, instance)
       THEN [heap |-> heap, raised |-> "AttributeError"]
       ELSE IF desc.immutable /\ attr \in DOMAIN heap[instance.id].dict
       THEN [heap |-> heap, raised |-> "IllegalOperation"]
       ELSE [heap |-> [heap EXCEPT ![instance.id].dict =
                                       (attr :> checked.value) @@ @],
             raised |-> "none"]

\* descriptor.__get__(instance, type): Descriptor.__get__, Toggle.__get__
\* with Toggle._get_value, or SQLiteEngine._get_value
descriptor_get(desc, attr, heap, o) ==
    LET d == heap[o].dict
    IN IF ~desc.toggle \/ desc.fallback = NoFallback
       THEN [raised |-> "none", value |-> dict_get(d, attr)]
       ELSE IF desc.rule = "engine"
       THEN LET instance == IF attr \notin DOMAIN d
                            THEN dict_get(d, desc.fallback)
                            ELSE Object(o)
            IN IF ~has_dict(heap, instance)
               THEN [raised |-> "AttributeError", value |-> NoneValue]
               ELSE [raised |-> "none",
                     value |-> dict_get(heap[instance.id].dict, attr)]
       ELSE IF attr \notin DOMAIN d
       THEN [raised |-> "none", value |-> dict_get(d, desc.fallback)]
       ELSE [raised |-> "none", value |-> dict_get(d, attr)]

\* descriptor.__delete__(instance): Immutable.__delete__ raises,
\* Descriptor.__delete__ pops the key
descriptor_delete(desc, attr, heap, o) ==
    IF desc.immutable
    THEN [heap |-> heap, raised |-> "IllegalOperation"]
    ELSE [heap |-> [heap EXCEPT ![o].dict =
                        [a \in (DOMAIN @) \ {attr} |-> @[a]]],
          raised |-> "none"]

\* ============================================================ collections
\* _fields is an insertion-ordered dict: a sequence of [key, value]
field_keys(fields) == {fields[i].key : i \in DOMAIN fields}
field_values(fields) == {fields[i].value : i \in DOMAIN fields}
\* Collection.values(): list(self._fields.values())
values(fields) == [i \in DOMAIN fields |-> fields[i].value]
\* Collection.keys()
keys(fields) == [i \in DOMAIN fields |-> fields[i].key]

\* a == b on values: a bool equals the int of the same truth value
py_eq(a, b) ==
    \/ a = b
    \/ \E x \in {a, b}, y \in {a, b} :
          /\ x.type = "bool" /\ y.type = "int"
          /\ y.id = (IF x.text = "True" THEN 1 ELSE 0)

\* the classes whose insert is MixinCollection.insert
MixinCollections == {"Tables", "Columns", "Indexes", "Views", "Triggers"}
CollectionClasses == {"Collection"} \cup MixinCollections

\* a _check_key that lets a key be bound again
check_key_rebinding(fields, key) == "none"

\* Collection._check_key: `value in self._fields`
check_key(fields, key) ==
    IF key \in field_keys(fields) THEN "DuplicateKeyError" ELSE "none"

\* a _check_value that compares nothing
collection_check_value_skipped(fields, value) == "none"

\* Collection._check_value: `value in self._fields.values()`
collection_check_value(fields, value) ==
    IF \E v \in field_values(fields) : py_eq(v, value)
    THEN "DuplicateItemError" ELSE "none"

\* Collection._check_item: the key is checked before the value
check_item(fields, key, value) ==
    IF check_key(fields, key) # "none" THEN check_key(fields, key)
    ELSE collection_check_value(fields, value)

\* self._fields.update(self._check_item(key, value))
fields_update(fields, key, value) ==
    IF check_item(fields, key, value) # "none"
    THEN [fields |-> fields, raised |-> check_item(fields, key, value)]
    ELSE [fields |-> Append(fields, [key |-> key, value |-> value]),
          raised |-> "none"]

\* Collection._update_fields: the pairs of mapping one after the other,
\* stopping at the first that is refused
RECURSIVE update_fields(_, _)
update_fields(fields, mapping) ==
    IF mapping = <<>> THEN [fields |-> fields, raised |-> "none"]
    ELSE LET one == fields_update(fields, Head(mapping).key,
                                  Head(mapping).value)
         IN IF one.raised # "none" THEN one
            ELSE update_fields(one.fields, Tail(mapping))

\* Collection.__init__ / _update_collection: the mapping, then the keyword
\* pairs
update_collection(mapping, kwargs) ==
    LET first == update_fields(<<>>, mapping)
    IN IF first.raised # "none" THEN first
       ELSE update_fields(first.fields, kwargs)

\* Collection.insert / update / clear / remove, __setitem__ / __delitem__,
\* __setattr__ / __delattr__: each raises and touches nothing
ClosedMethods ==
    {"update", "clear", "remove", "__setitem__", "__delitem__",
     "__setattr__", "__delattr__"}
\* an entry point left open: it empties the collection
closed_open(fields) == [fields |-> <<>>, raised |-> "none"]
closed(fields) == [fields |-> fields, raised |-> "IllegalOperation"]

\* MixinCollection.insert
MixinCollection_insert(fields, key, value) == fields_update(fields, key, value)

\* Tables.insert / Columns.insert: super().insert(key, value)
Tables_insert(fields, key, value) == MixinCollection_insert(fields, key, value)
Columns_insert(fields, key, value) == MixinCollection_insert(fields, key, value)

\* collection.insert(key, value) by the collection's class
insert(cls, fields, key, value) ==
    CASE cls = "Collection" -> closed(fields)
      [] cls = "Tables" -> Tables_insert(fields, key, value)
      [] cls = "Columns" -> Columns_insert(fields, key, value)
      [] OTHER -> MixinCollection_insert(fields, key, value)

\* Collection._get_by_key
get_by_key(fields, key) ==
    IF key \notin field_keys(fields)
    THEN [raised |-> "MissingKeyError", value |-> NoneValue]
    ELSE [raised |-> "none",
          value |-> fields[CHOOSE i \in DOMAIN fields : fields[i].key = key].value]

\* Collection._get_by_index: list(...)[key], negative keys count from the end
get_by_index(fields, key) ==
    IF key >= Len(fields) \/ key < 0 - Len(fields)
    THEN [raised |-> "IndexError", value |-> NoneValue]
    ELSE [raised |-> "none",
          value |-> fields[IF key >= 0 THEN key + 1
                           ELSE Len(fields) + key + 1].value]

\* Collection._get_item: by key for a str, by index for an int
get_item(fields, key) ==
    CASE key.type = "str" -> get_by_key(fields, key.text)
      [] key.type \in {"int", "bool"} ->
           get_by_index(fields, IF key.type = "int" THEN key.id
                                ELSE IF key.text = "True" THEN 1 ELSE 0)
      [] OTHER -> [raised |-> "TypeError", value |-> NoneValue]

\* itertools.zip_longest(left, right): the shorter one is filled with None
zip_longest(left, right) ==
    LET n == IF Len(left) >= Len(right) THEN Len(left) ELSE Len(right)
    IN [i \in 1..n |->
          [left |-> IF i <= Len(left) THEN left[i] ELSE NoneValue,
           right |-> IF i <= Len(right) THEN right[i] ELSE NoneValue]]

\* Collection.__eq__: no pair of zip_longest with `left is not right`
collection_eq(fields, other) ==
    LET pairs == zip_longest(values(fields), values(other))
    IN \A i \in DOMAIN pairs : pairs[i].left = pairs[i].right

\* ============================================================ construction
\* keyword arguments are an ordered sequence of [key, value]
kw_has(kwargs, key) == \E i \in DOMAIN kwargs : kwargs[i].key = key
\* kwargs.pop(key, default): the value
kw_value(kwargs, key, default) ==
    IF kw_has(kwargs, key)
    THEN kwargs[CHOOSE i \in DOMAIN kwargs : kwargs[i].key = key].value
    ELSE default
\* kwargs.pop(key, default): what is left
kw_rest(kwargs, key) == SelectSeq(kwargs, LAMBDA kv : kv.key # key)

\* the least identity of ids not yet given to an object; 0 when none is left
fresh(ids, heap) ==
    IF \A i \in ids : heap[i].cls # "none" THEN 0
    ELSE CHOOSE i \in ids : /\ heap[i].cls = "none"
                            /\ \A j \in ids : heap[j].cls = "none" => i <= j

\* how many collections with an identity of ids could still be constructed
free_colls(ids, cs) == Cardinality({c \in ids : cs[c].cls = "none"})

\* Model._check_params: nothing left is fine; otherwise the parameters are
\* quoted (utils.single_quote leaves a non-string as it is) and joined into
\* the ArgumentError message, and str.join raises TypeError on a non-string
check_params(args, kwargs) ==
    IF Len(args) + Len(kwargs) = 0 THEN "none"
    ELSE IF \E i \in DOMAIN args : args[i].type # "str" THEN "TypeError"
    ELSE "ArgumentError"

\* setattr(o, attr, value) through the class's descriptor
set_attr(heap, o, attr, value) ==
    descriptor_set(Slots(heap[o].cls)[attr], attr, heap, o, value)
\* getattr(o, attr)
get_attr(heap, o, attr) ==
    descriptor_get(Slots(heap[o].cls)[attr], attr, heap, o)
\* delattr(o, attr)
del_attr(heap, o, attr) ==
    descriptor_delete(Slots(heap[o].cls)[attr], attr, heap, o)

\* a run of attribute assignments in order, stopping at the first error
RECURSIVE set_attrs(_, _, _)
set_attrs(heap, o, pairs) ==
    IF pairs = <<>> THEN [heap |-> heap, raised |-> "none"]
    ELSE LET next(one) == IF one.raised # "none" THEN one
                          ELSE set_attrs(one.heap, o, Tail(pairs))
         IN next(set_attr(heap, o, Head(pairs).key, Head(pairs).value))

\* Schema.__init__(name, *args, **kwargs) building object o with the
\* collections c .. c + 3; an error leaves no object behind
Schema_init(heap, cs, o, c, name, args, kwargs) ==
    LET blank == [heap EXCEPT ![o] = [cls |-> "Schema", dict |-> EmptyDict]]
        attrs == <<[key |-> "name", value |-> name],
                   [key |-> "tables", value |-> CollectionRef(c)],
                   [key |-> "indexes", value |-> CollectionRef(c + 1)],
                   [key |-> "views", value |-> CollectionRef(c + 2)],
                   [key |-> "triggers", value |-> CollectionRef(c + 3)]>>
        engine == IF kw_has(kwargs, "engine")
                  THEN <<[key |-> "engine",
                          value |-> kw_value(kwargs, "engine", NoneValue)]>>
                  ELSE <<>>
        cs1 == [cs EXCEPT ![c] = [cls |-> "Tables", fields |-> <<>>],
                          ![c + 1] = [cls |-> "Indexes", fields |-> <<>>],
                          ![c + 2] = [cls |-> "Views", fields |-> <<>>],
                          ![c + 3] = [cls |-> "Triggers", fields |-> <<>>]]
        checked(done, params) ==
            IF done.raised # "none"
            THEN [heap |-> heap, colls |-> cs, raised |-> done.raised]
            ELSE IF params # "none"
            THEN [heap |-> heap, colls |-> cs, raised |-> params]
            ELSE [heap |-> done.heap, colls |-> cs1, raised |-> "none"]
    IN checked(set_attrs(blank, o, attrs \o engine),
               check_params(args, kw_rest(kwargs, "engine")))

\* Column.__init__(name, type, *args, **kwargs); an error leaves no object
Column_init(heap, o, name, type, args, kwargs) ==
    LET blank == [heap EXCEPT ![o] = [cls |-> "Column", dict |-> EmptyDict]]
        attrs == <<[key |-> "name", value |-> name],
                   [key |-> "type", value |-> type],
                   [key |-> "null",
                    value |-> kw_value(kwargs, "null", Bool(TRUE))],
                   [key |-> "primary",
                    value |-> kw_value(kwargs, "primary", Bool(FALSE))],
                   [key |-> "unique",
                    value |-> kw_value(kwargs, "unique", Bool(FALSE))],
                   [key |-> "index",
                    value |-> kw_value(kwargs, "index", Bool(FALSE))]>>
        left == SelectSeq(kwargs, LAMBDA kv :
                    kv.key \notin {"null", "primary", "unique", "index"})
        checked(done, params) ==
            IF done.raised # "none"
            THEN [heap |-> heap, raised |-> done.raised]
            ELSE IF params # "none" THEN [heap |-> heap, raised |-> params]
            ELSE done
    IN checked(set_attrs(blank, o, attrs), check_params(args, left))

\* hasattr(value, "__type_name__") and value.__type_name__ == target
is_kind(heap, value, target) ==
    value.type = "object" /\ type_name(heap[value.id].cls) = target

\* BaseSchema._set_child: model.schema = self, then Model._set_child:
\* model.parent = self
BaseSchema_set_child(heap, s, model) ==
    set_attrs(heap, model, <<[key |-> "schema", value |-> Object(s)],
                             [key |-> "parent", value |-> Object(s)]>>)

\* Table._set_child: model.table = self, then Model._set_child
Table_set_child(heap, t, model) ==
    set_attrs(heap, model, <<[key |-> "table", value |-> Object(t)],
                             [key |-> "parent", value |-> Object(t)]>>)

\* add_table that sets the back-references and registers nothing
add_table_unregistered(heap, cs, s, model) ==
    LET adopted(child) ==
            [heap |-> child.heap, colls |-> cs, raised |-> child.raised]
    IN adopted(BaseSchema_set_child(heap, s, model))

\* BaseSchema.add_table: self._set_child(model), then
\* self.tables.insert(model.key, model)
add_table(heap, cs, s, model) ==
    LET inserted(child, tables, put) ==
            [heap |-> child.heap,
             colls |-> [cs EXCEPT ![tables.id].fields = put.fields],
             raised |-> put.raised]
        keyed(child, tables, key) ==
            inserted(child, tables,
                     insert(cs[tables.id].cls, cs[tables.id].fields,
                            key.text, Object(model)))
        adopted(child) ==
            IF child.raised # "none"
            THEN [heap |-> child.heap, colls |-> cs, raised |-> child.raised]
            ELSE keyed(child, get_attr(child.heap, s, "tables").value,
                       get_attr(child.heap, model, "key").value)
    IN adopted(BaseSchema_set_child(heap, s, model))

\* Table._filter_columns over the positional arguments (Model._filter_items,
\* first loop): each argument of kind column is taken out of args, becomes
\* the table's child and is yielded under its key; todo are the arguments
\* still to visit, args the ones left in place, columns the pairs yielded
RECURSIVE filter_positional(_, _, _, _, _)
filter_positional(heap, t, todo, args, columns) ==
    IF todo = <<>>
    THEN [heap |-> heap, raised |-> "none", args |-> args,
          columns |-> columns]
    ELSE IF ~is_kind(heap, Head(todo), "column")
    THEN filter_positional(heap, t, Tail(todo), Append(args, Head(todo)),
                           columns)
    ELSE LET yielded(child) ==
                 IF child.raised # "none"
                 THEN [heap |-> child.heap, raised |-> child.raised,
                       args |-> args, columns |-> columns]
                 ELSE filter_positional(child.heap, t, Tail(todo), args,
                          Append(columns,
                                 [key |-> get_attr(child.heap, Head(todo).id,
                                                   "key").value.text,
                                  value |-> Head(todo)]))
         IN yielded(Table_set_child(heap, t, Head(todo).id))

\* the same over the keyword arguments (Model._filter_items, second loop):
\* item.key = key before the item is yielded
RECURSIVE filter_keywords(_, _, _, _, _)
filter_keywords(heap, t, todo, kwargs, columns) ==
    IF todo = <<>>
    THEN [heap |-> heap, raised |-> "none", kwargs |-> kwargs,
          columns |-> columns]
    ELSE IF ~is_kind(heap, Head(todo).value, "column")
    THEN filter_keywords(heap, t, Tail(todo), Append(kwargs, Head(todo)),
                         columns)
    ELSE LET item == Head(todo).value.id
             yielded(child) ==
                 IF child.raised # "none"
                 THEN [heap |-> child.heap, raised |-> child.raised,
                       kwargs |-> kwargs, columns |-> columns]
                 ELSE filter_keywords(child.heap, t, Tail(todo), kwargs,
                          Append(columns,
                                 [key |-> get_attr(child.heap, item,
                                                   "key").value.text,
                                  value |-> Head(todo).value]))
             popped(keyed) ==
                 IF keyed.raised # "none"
                 THEN [heap |-> keyed.heap, raised |-> keyed.raised,
                       kwargs |-> kwargs, columns |-> columns]
                 ELSE yielded(Table_set_child(keyed.heap, t, item))
         IN popped(set_attr(heap, item, "key", Str(Head(todo).key)))

\* Table._rezolve_columns: the pairs of _filter_columns, then
\* Columns(columns)
rezolve_columns(heap, t, args, kwargs) ==
    LET collected(pos, kws, built) ==
            [heap |-> kws.heap, raised |-> built.raised, args |-> pos.args,
             kwargs |-> kws.kwargs, fields |-> built.fields]
        keywords(pos, kws) ==
            IF kws.raised # "none"
            THEN [heap |-> kws.heap, raised |-> kws.raised,
                  args |-> pos.args, kwargs |-> kws.kwargs, fields |-> <<>>]
            ELSE collected(pos, kws, update_collection(kws.columns, <<>>))
        positional(pos) ==
            IF pos.raised # "none"
            THEN [heap |-> pos.heap, raised |-> pos.raised,
                  args |-> pos.args, kwargs |-> kwargs, fields |-> <<>>]
            ELSE keywords(pos, filter_keywords(pos.heap, t, kwargs, <<>>,
                                               pos.columns))
    IN positional(filter_positional(heap, t, args, <<>>, <<>>))

\* Table.__init__(name, schema, *args, **kwargs) building object o, its
\* Columns collection being c.  An error before the table is in
\* schema.tables leaves no object behind; a later one leaves the table in
\* the schema as far as it was built.
Table_init(heap, cs, o, c, name, s, args, kwargs) ==
    LET blank == [heap EXCEPT ![o] = [cls |-> "Table", dict |-> EmptyDict]]
        rest(kw) ==
            <<[key |-> "columns", value |-> CollectionRef(c)],
              [key |-> "row_id", value |-> kw_value(kw, "row_id", Bool(TRUE))]>>
            \o (IF kw_has(kw, "engine")
                THEN <<[key |-> "engine",
                        value |-> kw_value(kw, "engine", NoneValue)]>>
                ELSE <<>>)
        left(kw) ==
            SelectSeq(kw, LAMBDA kv : kv.key \notin {"row_id", "engine"})
        assigned(cols, cs1, done) ==
            IF done.raised # "none"
            THEN [heap |-> done.heap, colls |-> cs1, raised |-> done.raised]
            ELSE [heap |-> done.heap, colls |-> cs1,
                  raised |-> check_params(cols.args, left(cols.kwargs))]
        resolved(added, cols) ==
            IF cols.raised # "none"
            THEN [heap |-> cols.heap, colls |-> added.colls,
                  raised |-> cols.raised]
            ELSE assigned(cols,
                          [added.colls EXCEPT ![c] = [cls |-> "Columns",
                                                      fields |-> cols.fields]],
                          set_attrs(cols.heap, o, rest(cols.kwargs)))
        registered(added) ==
            IF added.raised # "none"
            THEN [heap |-> heap, colls |-> cs, raised |-> added.raised]
            ELSE resolved(added, rezolve_columns(added.heap, o, args, kwargs))
        named(set) ==
            IF set.raised # "none"
            THEN [heap |-> heap, colls |-> cs, raised |-> set.raised]
            ELSE registered(add_table(set.heap, cs, s, o))
    IN named(set_attr(blank, o, "name", name))

\* ============================================================ schema inputs
\* the least identity of ids not yet given to a collection
fresh_coll(ids, cs) ==
    CHOOSE c \in ids : /\ cs[c].cls = "none"
                       /\ \A d \in ids : cs[d].cls = "none" => c <= d

Allocated(o) == objs[o].cls # "none"
Built(c) == colls[c].cls # "none"

\* the values offered to constructors and assignments
SchemaNames == {Str("main"), Str("MAIN"), Str("other"), NoneValue}
ItemNames == {Str("a"), Str("b"), Str(""), IntValue(5)}
EngineKwargs ==
    {<<>>, <<[key |-> "engine", value |-> SQLiteObj(1)]>>,
     <<[key |-> "engine", value |-> SQLiteObj(2)]>>,
     <<[key |-> "engine", value |-> IntValue(5)]>>,
     <<[key |-> "x", value |-> IntValue(1)]>>}
LeftoverArgs == {<<>>, <<IntValue(5)>>, <<Str("foo")>>}
ColumnKwargs ==
    {<<>>, <<[key |-> "null", value |-> Bool(FALSE)]>>,
     <<[key |-> "null", value |-> IntValue(1)]>>,
     <<[key |-> "x", value |-> IntValue(1)]>>}
\* the values offered to an assignment, by the rule of the attribute: some
\* that pass the rule and some that fail it
SetValues(rule) ==
    CASE rule = "any" -> {NoneValue} \cup {Object(s) : s \in SchemaIds}
      [] rule = "str" -> {NoneValue, Str(""), Str("a"), IntValue(5)}
      [] rule = "bool" -> {NoneValue, Bool(FALSE), IntValue(5)}
      [] rule = "schema_name" ->
           {NoneValue, Str(""), Str("MAIN"), Str("other"), IntValue(5)}
      [] OTHER -> {NoneValue, SQLiteObj(1), SQLiteObj(2), IntValue(5)}
AllSetValues ==
    UNION {SetValues(rule) :
              rule \in {"any", "str", "bool", "schema_name", "engine"}}

\* the arguments offered to Table(...): up to two positional ones, up to
\* two keyword ones, among the columns constructed so far and values that
\* are no columns
ArgValues ==
    {Object(c) : c \in {d \in ColumnIds : Allocated(d)}} \cup {IntValue(5)}
KwValues ==
    {Object(c) : c \in {d \in ColumnIds : Allocated(d)}} \cup {IntValue(1)}
KwPairs == {[key |-> k, value |-> v] : k \in {"b", "x"}, v \in KwValues}
               \cup {[key |-> "row_id", value |-> Bool(FALSE)],
                     [key |-> "engine", value |-> SQLiteObj(2)]}
TableArgs ==
    {<<>>, <<Str("foo")>>} \cup {<<x>> : x \in ArgValues}
        \cup {<<x, y>> : x \in ArgValues, y \in ArgValues}
TableKwargs ==
    {<<>>} \cup {<<p>> : p \in KwPairs}
        \cup {<<p, q>> : p \in {r \in KwPairs : r.key = "b"},
                         q \in {r \in KwPairs : r.key = "x"}}

\* ============================================================ schema actions
\* Schema(name, *args, **kwargs)
NewSchema(name, args, kwargs) ==
    /\ fresh(SchemaIds, objs) # 0
    /\ free_colls(SchemaCollIds, colls) >= 4
    /\ LET o == fresh(SchemaIds, objs)
           r == Schema_init(objs, colls, o, fresh_coll(SchemaCollIds, colls),
                            name, args, kwargs)
       IN /\ objs' = r.heap
          /\ colls' = r.colls
          /\ slast' = [NoSchemaCall EXCEPT
                         !.op = "Schema", !.value = name, !.raised = r.raised,
                         !.args = args, !.kwargs = kwargs,
                         !.target = IF r.raised = "none" THEN o ELSE 0]
    /\ UNCHANGED <<evars, cvars>>

\* Column(name, **kwargs)
NewColumn(name, args, kwargs) ==
    /\ fresh(ColumnIds, objs) # 0
    /\ LET o == fresh(ColumnIds, objs)
           r == Column_init(objs, o, name, Str("TEXT"), args, kwargs)
       IN /\ objs' = r.heap
          /\ slast' = [NoSchemaCall EXCEPT
                         !.op = "Column", !.value = name, !.raised = r.raised,
                         !.args = args, !.kwargs = kwargs,
                         !.target = IF r.raised = "none" THEN o ELSE 0]
    /\ UNCHANGED <<colls, evars, cvars>>

\* View(): SchemaItem defines no __init__
NewView ==
    /\ fresh(ViewIds, objs) # 0
    /\ objs' = [objs EXCEPT ![fresh(ViewIds, objs)] =
                                [cls |-> "View", dict |-> EmptyDict]]
    /\ slast' = [NoSchemaCall EXCEPT !.op = "View",
                                     !.target = fresh(ViewIds, objs)]
    /\ UNCHANGED <<colls, evars, cvars>>

\* Table(name, schema, *args, **kwargs)
NewTable(name, s, args, kwargs) ==
    /\ fresh(TableIds, objs) # 0
    /\ free_colls(TableCollIds, colls) >= 1
    /\ Allocated(s)
    /\ \E o \in {fresh(TableIds, objs)} :
       \E r \in {Table_init(objs, colls, o, fresh_coll(TableCollIds, colls),
                            name, s, args, kwargs)} :
          /\ objs' = r.heap
          /\ colls' = r.colls
          /\ slast' = [NoSchemaCall EXCEPT
                         !.op = "Table", !.value = name, !.other = s,
                         !.args = args, !.kwargs = kwargs,
                         !.raised = r.raised,
                         !.target = IF r.heap[o].cls = "none" THEN 0 ELSE o]
    /\ UNCHANGED <<evars, cvars>>

\* o.attr = value
SetAttr(o, attr, value) ==
    /\ Allocated(o)
    /\ attr \in DOMAIN Slots(objs[o].cls)
    /\ value \in SetValues(Slots(objs[o].cls)[attr].rule)
    /\ LET r == set_attr(objs, o, attr, value)
       IN /\ objs' = r.heap
          /\ slast' = [NoSchemaCall EXCEPT
                         !.op = "set", !.target = o, !.attr = attr,
                         !.value = value, !.raised = r.raised]
    /\ UNCHANGED <<colls, evars, cvars>>

\* del o.attr
DelAttr(o, attr) ==
    /\ Allocated(o)
    /\ attr \in DOMAIN Slots(objs[o].cls)
    /\ LET r == del_attr(objs, o, attr)
       IN /\ objs' = r.heap
          /\ slast' = [NoSchemaCall EXCEPT
                         !.op = "delete", !.target = o, !.attr = attr,
                         !.raised = r.raised]
    /\ UNCHANGED <<colls, evars, cvars>>

\* o.attr
GetAttr(o, attr) ==
    /\ Allocated(o)
    /\ attr \in DOMAIN Slots(objs[o].cls)
    /\ LET r == get_attr(objs, o, attr)
       IN slast' = [NoSchemaCall EXCEPT
                      !.op = "get", !.target = o, !.attr = attr,
                      !.raised = r.raised, !.result = r.value]
    /\ UNCHANGED <<objs, colls, evars, cvars>>

\* no table has been constructed
NoTable == \A t \in TableIds : ~Allocated(t)

\* every managed attribute name
AttrNames ==
    UNION {DOMAIN Slots(cls) : cls \in {"Schema", "Table", "Column", "View"}}

\* Schemas, tables and views are constructed and their attributes are read,
\* assigned and deleted.
SlotsNext ==
    \/ \E name \in SchemaNames, args \in LeftoverArgs, kwargs \in EngineKwargs :
          NewSchema(name, args, kwargs)
    \/ \E name \in ItemNames \ {Str("b")}, s \in SchemaIds,
          kwargs \in {k \in EngineKwargs :
                         \A i \in DOMAIN k : k[i].key = "engine"} :
          NoTable /\ NewTable(name, s, <<>>, kwargs)
    \/ NewView
    \/ \E o \in ObjIds, attr \in AttrNames, value \in AllSetValues :
          SetAttr(o, attr, value)
    \/ \E o \in ObjIds, attr \in AttrNames : DelAttr(o, attr)
    \/ \E o \in ObjIds, attr \in AttrNames : GetAttr(o, attr)

SpecSlots == Init /\ [][SlotsNext]_vars

\* ============================================================ claims C11-C14
\* a value fails a slot's rule: null; empty or non-string for a string slot;
\* non-boolean for a boolean slot; a schema name that does not case-fold to
\* main or temp; a non-engine for the engine slot
FailsRule(rule, value) ==
    \/ value = NoneValue
    \/ rule \in {"str", "schema_name"} /\ (value.type # "str" \/ value.text = "")
    \/ rule = "bool" /\ value.type # "bool"
    \/ rule = "schema_name" /\ lower(value.text) \notin {"main", "temp"}
    \/ rule = "engine" /\ value.type # "SQLite"

C12_InvalidSetRejected ==
    [][(slast'.op = "set" /\ slast' # slast
          /\ FailsRule(Slots(objs[slast'.target].cls)[slast'.attr].rule,
                       slast'.value))
         => /\ slast'.raised
                 \in {"ValueError", "SchemaNameError", "SQLiteEngineError"}
            /\ objs' = objs]_vars

\* C12 happens: an invalid value was refused with ValueError on a slot that
\* holds a value
C12_Witness ==
    /\ slast.op = "set"
    /\ slast.raised = "ValueError"
    /\ slast.attr \in DOMAIN objs[slast.target].dict

\* what a get is to return: the stored value, else the value of the
\* fallback (for the engine slot: the engine of the object the fallback
\* names), else None
Resolved(o, attr) ==
    LET d == objs[o].dict
        slot == Slots(objs[o].cls)[attr]
        named == dict_get(d, slot.fallback)
    IN IF attr \in DOMAIN d THEN d[attr]
       ELSE IF slot.fallback = NoFallback THEN NoneValue
       ELSE IF slot.rule # "engine" THEN named
       ELSE IF named.type = "object" THEN dict_get(objs[named.id].dict, attr)
       ELSE NoneValue

\* C13: a get never raises and returns the stored value, else the
\* fallback's value, else None.
C13_GetNeverRaises ==
    slast.op = "get"
        => /\ slast.raised = "none"
           /\ slast.result = Resolved(slast.target, slast.attr)

\* C14: a table in a schema with no engine of its own reads the schema's
\* engine; a table that was given an engine reads that engine.
C14_EngineFallback ==
    /\ \A t \in TableIds :
          (Allocated(t) /\ "engine" \notin DOMAIN objs[t].dict
             /\ dict_get(objs[t].dict, "schema").type = "object")
            => get_attr(objs, t, "engine")
                 = [raised |-> "none",
                    value |-> dict_get(objs[objs[t].dict["schema"].id].dict,
                                       "engine")]
    /\ \A t \in TableIds :
          (Allocated(t)
             /\ \/ slast.op = "set" /\ slast.target = t /\ slast.attr = "engine"
                     /\ slast.value.type = "SQLite"
                \/ slast.op = "Table" /\ slast.target = t
                     /\ kw_has(slast.kwargs, "engine")
                     /\ kw_value(slast.kwargs, "engine", NoneValue).type = "SQLite")
            => get_attr(objs, t, "engine").value
                 = (IF slast.op = "set" THEN slast.value
                    ELSE kw_value(slast.kwargs, "engine", NoneValue))

\* ============================================================ claim C26
\* C26: a write of the engine attribute of a table or a view that is
\* accepted stores the value in the item's own storage and leaves every
\* schema as it was.
C26_EngineStoredPerInstance ==
    [][(slast' # slast /\ slast'.op = "set" /\ slast'.attr = "engine"
          /\ slast'.raised = "none"
          /\ slast'.target \in TableIds \cup ViewIds)
         => /\ dict_get(objs'[slast'.target].dict, "engine") = slast'.value
            /\ \A s \in SchemaIds : objs'[s] = objs[s]]_vars

\* ============================================================ Table(...)
\* A schema and columns are constructed, and tables are constructed from
\* them with positional and keyword arguments.
TableNext ==
    \/ \E kwargs \in {k \in EngineKwargs :
                         \A i \in DOMAIN k : k[i].value = SQLiteObj(1)} :
          NewSchema(Str("main"), <<>>, kwargs)
    \/ \E name \in {Str("a"), Str("b")},
          kwargs \in {k \in ColumnKwargs :
                         \A i \in DOMAIN k : k[i].key = "x"} :
          NewColumn(name, <<>>, kwargs)
    \/ \E name \in {Str("t")}, s \in SchemaIds,
          args \in TableArgs, kwargs \in TableKwargs :
          NoTable /\ NewTable(name, s, args, kwargs)

SpecTable == Init /\ [][TableNext]_vars

\* the positional and the keyword arguments of the last call that are
\* columns, and the ones that are nothing Table(...) knows
PositionalColumns == SelectSeq(slast.args, LAMBDA v : is_kind(objs, v, "column"))
KeywordColumns ==
    SelectSeq(slast.kwargs, LAMBDA kv : is_kind(objs, kv.value, "column"))
UnknownArgs == SelectSeq(slast.args, LAMBDA v : ~is_kind(objs, v, "column"))
UnknownKwargs ==
    SelectSeq(slast.kwargs,
              LAMBDA kv : /\ ~is_kind(objs, kv.value, "column")
                          /\ kv.key \notin {"row_id", "engine"})
\* the keys the columns are to be registered under, in order
ExpectedColumns ==
    [i \in DOMAIN PositionalColumns |->
        [key |-> objs[PositionalColumns[i].id].dict["name"].text,
         value |-> PositionalColumns[i]]]
    \o [i \in DOMAIN KeywordColumns |->
        [key |-> KeywordColumns[i].key, value |-> KeywordColumns[i].value]]

\* C20: Table(name, schema, *args, **kwargs) registers every positional
\* column under its name and every keyword column under its keyword; an
\* argument that is left over raises ArgumentError (unless a column, the
\* row-id flag or the engine was refused before).
C20_ConstructionFiltering ==
    slast.op = "Table" =>
        /\ slast.raised = "none"
             => /\ slast.target # 0
                /\ colls[objs[slast.target].dict["columns"].id].fields
                     = ExpectedColumns
        /\ Len(UnknownArgs) + Len(UnknownKwargs) > 0
             => slast.raised \in {"ArgumentError", "IllegalOperation",
                                  "DuplicateKeyError", "DuplicateItemError",
                                  "ValueError", "SQLiteEngineError"}

\* ============================================================ claims C22, C27
\* the tables registered in schema s, as (key, value) pairs in order
tables_of(heap, cs, s) == cs[get_attr(heap, s, "tables").value.id].fields
\* the columns registered in table t; none when t has no collection
columns_of(heap, cs, t) ==
    LET columns == get_attr(heap, t, "columns").value
    IN IF columns.type = "collection" THEN cs[columns.id].fields ELSE <<>>
\* the pair (key, value) is in the sequence of fields
holds(fields, key, value) ==
    \E i \in DOMAIN fields : fields[i] = [key |-> key, value |-> value]

\* C22: when Table(name, schema, ...) has returned, schema.tables holds the
\* table under its key, which is its name, table.schema and table.parent are
\* the schema, and every column argument is in table.columns under its key
\* with column.table being the table.
C22_RegisteredOnConstruction ==
    (slast.op = "Table" /\ slast.raised = "none") =>
        /\ slast.target # 0
        /\ get_attr(objs, slast.target, "key").value = slast.value
        /\ holds(tables_of(objs, colls, slast.other), slast.value.text,
                 Object(slast.target))
        /\ get_attr(objs, slast.target, "schema").value = Object(slast.other)
        /\ get_attr(objs, slast.target, "parent").value = Object(slast.other)
        /\ \A i \in DOMAIN ExpectedColumns :
              /\ holds(columns_of(objs, colls, slast.target),
                       get_attr(objs, ExpectedColumns[i].value.id, "key")
                           .value.text,
                       ExpectedColumns[i].value)
              /\ get_attr(objs, ExpectedColumns[i].value.id, "table").value
                    = Object(slast.target)

\* C22 witness: a Table(...) given one column positionally and one by
\* keyword has returned.
C22_Witness ==
    /\ slast.op = "Table" /\ slast.raised = "none"
    /\ Len(PositionalColumns) = 1 /\ Len(KeywordColumns) = 1
    /\ Len(columns_of(objs, colls, slast.target)) = 2

\* C27: a Table(name, schema, ...) that raises leaves schema.tables with
\* the keys and values it had before the call.
C27_FailedTableLeavesSchema ==
    [][(slast' # slast /\ slast'.op = "Table" /\ slast'.raised # "none")
         => tables_of(objs', colls', slast'.other)
              = tables_of(objs, colls, slast'.other)]_vars

\* ============================================================ collection actions
\* the keys and values offered to collections: None and an int
CollKeys == {"a", "b"}
CollValues == {NoneValue, IntValue(5)}
\* the mappings and keyword pairs offered to a collection's constructor
Mappings ==
    {<<>>,
     <<[key |-> "a", value |-> IntValue(5)]>>,
     <<[key |-> "a", value |-> NoneValue]>>,
     <<[key |-> "a", value |-> IntValue(5)], [key |-> "b", value |-> NoneValue]>>,
     <<[key |-> "a", value |-> IntValue(5)], [key |-> "a", value |-> NoneValue]>>,
     <<[key |-> "a", value |-> IntValue(5)], [key |-> "b", value |-> IntValue(5)]>>}
MappingKwargs == {<<>>, <<[key |-> "a", value |-> IntValue(5)]>>}
\* the keys offered to collection[key]
ItemKeys == {Str("a"), Str("b"), IntValue(0), IntValue(1), IntValue(5), NoneValue}

\* cls(mapping, **kwargs): Collection.__init__; an error leaves no collection
NewCollection(cls, mapping, kwargs) ==
    /\ free_colls(FreeCollIds, colls) >= 1
    /\ \E r \in {update_collection(mapping, kwargs)} :
          /\ colls' = IF r.raised # "none" THEN colls
                      ELSE [colls EXCEPT ![fresh_coll(FreeCollIds, colls)] =
                               [cls |-> cls, fields |-> r.fields]]
          /\ slast' = [NoSchemaCall EXCEPT
                         !.op = "Collection", !.attr = cls,
                         !.args = mapping, !.kwargs = kwargs,
                         !.raised = r.raised,
                         !.target = IF r.raised # "none" THEN 0
                                    ELSE fresh_coll(FreeCollIds, colls)]
    /\ UNCHANGED <<objs, evars, cvars>>

\* collection.insert(key, value)
Insert(c, key, value) ==
    /\ Built(c)
    /\ Len(colls[c].fields) < MaxLen
    /\ \E r \in {insert(colls[c].cls, colls[c].fields, key, value)} :
          /\ colls' = [colls EXCEPT ![c].fields = r.fields]
          /\ slast' = [NoSchemaCall EXCEPT
                         !.op = "insert", !.target = c, !.attr = key,
                         !.value = value, !.raised = r.raised]
    /\ UNCHANGED <<objs, evars, cvars>>

\* collection.update(...), .clear(), .remove(key), collection[key] = value,
\* del collection[key], collection.key = value, del collection.key
ClosedCall(c, method) ==
    /\ Built(c)
    /\ \E r \in {closed(colls[c].fields)} :
          /\ colls' = [colls EXCEPT ![c].fields = r.fields]
          /\ slast' = [NoSchemaCall EXCEPT
                         !.op = method, !.target = c, !.raised = r.raised]
    /\ UNCHANGED <<objs, evars, cvars>>

\* collection[key]
GetItem(c, key) ==
    /\ Built(c)
    /\ \E r \in {get_item(colls[c].fields, key)} :
          slast' = [NoSchemaCall EXCEPT
                      !.op = "getitem", !.target = c, !.value = key,
                      !.raised = r.raised, !.result = r.value]
    /\ UNCHANGED <<objs, colls, evars, cvars>>

\* c == d
Eq(c, d) ==
    /\ Built(c) /\ Built(d)
    /\ slast' = [NoSchemaCall EXCEPT
                   !.op = "eq", !.target = c, !.other = d,
                   !.result = Bool(collection_eq(colls[c].fields,
                                                 colls[d].fields))]
    /\ UNCHANGED <<objs, colls, evars, cvars>>

\* Collections are constructed on their own, inserted into, looked up,
\* compared and called on their closed entry points.
CollectionNext ==
    \/ \E cls \in {"Collection", "Tables", "Columns"}, mapping \in Mappings,
          kwargs \in MappingKwargs :
          NewCollection(cls, mapping, kwargs)
    \/ \E c \in CollIds, key \in CollKeys, value \in CollValues :
          Insert(c, key, value)
    \/ \E c \in CollIds, method \in ClosedMethods : ClosedCall(c, method)
    \/ \E c \in CollIds, key \in ItemKeys : GetItem(c, key)
    \/ \E c \in CollIds, d \in CollIds : Eq(c, d)

SpecCollection == Init /\ [][CollectionNext]_vars

\* ============================================================ claims C15-C19
\* no two entries with the same key or the same value
Distinct(fields) ==
    \A i \in DOMAIN fields, j \in DOMAIN fields :
        i # j => fields[i].key # fields[j].key /\ fields[i].value # fields[j].value

\* C15: on a collection whose insert is open, inserting (k, v) with k and v
\* absent makes the lookup of k return v; a present key raises
\* DuplicateKeyError, a present value under an absent key raises
\* DuplicateItemError, and both leave the entries and their order as they
\* were.
C15_KeyedInsert ==
    [][(slast'.op = "insert" /\ slast' # slast
          /\ colls[slast'.target].cls \in MixinCollections)
         => LET f == colls[slast'.target].fields
                g == colls'[slast'.target].fields
                k == slast'.attr
                v == slast'.value
                hasKey == \E i \in DOMAIN f : f[i].key = k
                hasValue == \E i \in DOMAIN f : f[i].value = v
            IN /\ (~hasKey /\ ~hasValue)
                    => /\ slast'.raised = "none"
                       /\ get_by_key(g, k) = [raised |-> "none", value |-> v]
               /\ hasKey => slast'.raised = "DuplicateKeyError" /\ g = f
               /\ (~hasKey /\ hasValue)
                    => slast'.raised = "DuplicateItemError" /\ g = f]_vars

\* C15 happens: a value that was present was refused under a new key
C15_Witness ==
    /\ slast.op = "insert"
    /\ slast.raised = "DuplicateItemError"
    /\ Len(colls[slast.target].fields) > 0

\* C16: in every collection keys are pairwise distinct and values are
\* pairwise distinct, and every step keeps each entry's key, value and
\* position.
C16_CollectionInvariant ==
    [][\A c \in CollIds :
          /\ Distinct(colls'[c].fields)
          /\ Built(c)
               => /\ colls'[c].cls = colls[c].cls
                  /\ Len(colls'[c].fields) >= Len(colls[c].fields)
                  /\ SubSeq(colls'[c].fields, 1, Len(colls[c].fields))
                       = colls[c].fields]_vars

\* C16 happens: a collection of two entries has just refused a mutation
C16_Witness ==
    /\ slast.op \in ClosedMethods
    /\ slast.raised = "IllegalOperation"
    /\ Len(colls[slast.target].fields) = 2

\* C17: on the base Collection insert, update, clear, remove, item and
\* attribute assignment and deletion raise IllegalOperation and change
\* nothing; on the subclasses insert is open and all the others still raise
\* IllegalOperation and change nothing.
C17_ClosedSurface ==
    [][(slast'.op \in ClosedMethods \cup {"insert"} /\ slast' # slast)
         => IF slast'.op = "insert"
                  /\ colls[slast'.target].cls \in MixinCollections
            THEN slast'.raised # "IllegalOperation"
            ELSE slast'.raised = "IllegalOperation" /\ colls' = colls]_vars

\* C17 happens: clear was refused on a Tables collection that has entries
C17_Witness ==
    /\ slast.op = "clear"
    /\ slast.raised = "IllegalOperation"
    /\ colls[slast.target].cls = "Tables"
    /\ Len(colls[slast.target].fields) > 0

\* the kind of value a typed collection governs
Governed(cls) == IF cls = "Tables" THEN "table" ELSE "column"

\* C18: Tables.insert accepts only a Table and Columns.insert only a Column:
\* an insert of anything else is refused, and every value held is of the
\* governed kind.
C18_TypedInsert ==
    (slast.op = "insert" /\ colls[slast.target].cls \in {"Tables", "Columns"})
        => /\ slast.raised = "none"
                => is_kind(objs, slast.value,
                           Governed(colls[slast.target].cls))
           /\ \A i \in DOMAIN colls[slast.target].fields :
                 is_kind(objs, colls[slast.target].fields[i].value,
                         Governed(colls[slast.target].cls))

\* C19: c == d exactly when both hold the same number of entries and the
\* same values in the same order.
C19_Equality ==
    slast.op = "eq"
        => LET f == colls[slast.target].fields
               g == colls[slast.other].fields
           IN slast.result
                = Bool(/\ Len(f) = Len(g)
                       /\ \A i \in DOMAIN f : f[i].value = g[i].value)

\* ============================================================ schema graph
MaxDepth == 8

\* Table.add_column: self._set_child(model), then
\* self.columns.insert(model.key, model); a table without its columns
\* collection has None there
add_column(heap, cs, t, model) ==
    LET inserted(child, columns, put) ==
            [heap |-> child.heap,
             colls |-> [cs EXCEPT ![columns.id].fields = put.fields],
             raised |-> put.raised]
        keyed(child, columns, key) ==
            IF columns.type # "collection"
            THEN [heap |-> child.heap, colls |-> cs,
                  raised |-> "AttributeError"]
            ELSE inserted(child, columns,
                          insert(cs[columns.id].cls, cs[columns.id].fields,
                                 key.text, Object(model)))
        adopted(child) ==
            IF child.raised # "none"
            THEN [heap |-> child.heap, colls |-> cs, raised |-> child.raised]
            ELSE keyed(child, get_attr(child.heap, t, "columns").value,
                       get_attr(child.heap, model, "key").value)
    IN adopted(Table_set_child(heap, t, model))

\* isinstance(value, DictMixin): the model objects and the collections of
\* schema.py
is_dict_mixin(cs, value) ==
    \/ value.type = "object"
    \/ value.type = "collection" /\ cs[value.id].cls \in MixinCollections

\* the entries of an exported mapping put under key
under(key, entries) ==
    {[path |-> <<key>> \o e.path, value |-> e.value] : e \in entries}

\* what is exported when the nesting exceeds the interpreter's limit
RecursionError == [type |-> "RecursionError", text |-> "", id |-> 0]

\* an empty mapping in the export
EmptyMapping == [type |-> "dict", text |-> "", id |-> 0]

\* BaseItem._traverse that takes no value for the parent
never_own_parent(heap, self, value) == FALSE

\* BaseItem._traverse: value is self.parent, for the object self whose
\* _traverse runs (0: a collection, which is no BaseItem).  The slots refuse
\* None, so a stored value is never the None of a parent that is not set.
is_own_parent(heap, self, value) ==
    /\ self # 0
    /\ heap[self].cls \in {"Table", "Column", "View"}
    /\ value.type = "object"
    /\ value = get_attr(heap, self, "parent").value

\* DictMixin.as_dict / _traverse_dict / _traverse and BaseItem._traverse.
\* An exported mapping is the set of its leaves, each with the keys that
\* lead to it; fuel bounds the nesting.
RECURSIVE as_dict(_, _, _, _)
RECURSIVE traverse(_, _, _, _, _)
as_dict(heap, cs, value, fuel) ==
    LET entries ==
            IF value.type = "object"
            THEN UNION {under(a, traverse(heap, cs, value.id,
                                          heap[value.id].dict[a], fuel))
                           : a \in DOMAIN heap[value.id].dict}
            ELSE UNION {under(cs[value.id].fields[i].key,
                              traverse(heap, cs, 0,
                                       cs[value.id].fields[i].value, fuel))
                           : i \in DOMAIN cs[value.id].fields}
    IN IF fuel = 0 THEN {[path |-> <<>>, value |-> RecursionError]}
       ELSE IF entries = {} THEN {[path |-> <<>>, value |-> EmptyMapping]}
       ELSE entries
traverse(heap, cs, self, value, fuel) ==
    IF is_own_parent(heap, self, value)
    THEN {[path |-> <<>>, value |-> get_attr(heap, value.id, "name").value]}
    ELSE IF is_dict_mixin(cs, value)
    THEN as_dict(heap, cs, value, fuel - 1)
    ELSE {[path |-> <<>>, value |-> value]}

\* ------------------------------------------------------------ graph actions
\* s.add_table(t)
AddTable(s, t) ==
    /\ Allocated(s) /\ Allocated(t)
    /\ \E r \in {add_table(objs, colls, s, t)} :
          /\ objs' = r.heap
          /\ colls' = r.colls
          /\ slast' = [NoSchemaCall EXCEPT
                         !.op = "add_table", !.target = s,
                         !.value = Object(t), !.raised = r.raised]
    /\ UNCHANGED <<evars, cvars>>

\* t.add_column(c)
AddColumn(t, c) ==
    /\ Allocated(t) /\ Allocated(c)
    /\ \E r \in {add_column(objs, colls, t, c)} :
          /\ objs' = r.heap
          /\ colls' = r.colls
          /\ slast' = [NoSchemaCall EXCEPT
                         !.op = "add_column", !.target = t,
                         !.value = Object(c), !.raised = r.raised]
    /\ UNCHANGED <<evars, cvars>>

\* o.as_dict()
AsDict(o) ==
    /\ Allocated(o)
    /\ slast' = [NoSchemaCall EXCEPT
                   !.op = "as_dict", !.target = o,
                   !.raised =
                      IF \E e \in as_dict(objs, colls, Object(o), MaxDepth) :
                            e.value = RecursionError
                      THEN "RecursionError" ELSE "none"]
    /\ UNCHANGED <<objs, colls, evars, cvars>>

\* the columns, views and tables constructed so far
Columns == {c \in ColumnIds : Allocated(c)}
Views == {v \in ViewIds : Allocated(v)}
Tables == {t \in TableIds : Allocated(t)}
\* the collections of a class
CollsOf(cls) == {c \in CollIds : colls[c].cls = cls}

\* A schema, tables, columns and a view are constructed, children are
\* registered through add_table / add_column and through the collections'
\* insert, and objects are exported.
GraphNext ==
    \/ \E args \in {<<>>} \cup {<<Object(v)>> : v \in Views} :
          NewSchema(Str("main"), args, <<>>)
    \/ NewView
    \/ \E name \in {Str("a"), Str("b")} : NewColumn(name, <<>>, <<>>)
    \/ \E name \in {Str("t"), Str("u")}, s \in SchemaIds,
          args \in {<<>>} \cup {<<Object(c)>> : c \in Columns},
          kwargs \in {<<>>, <<[key |-> "x", value |-> IntValue(1)]>>} :
          NewTable(name, s, args, kwargs)
    \/ \E s \in SchemaIds, t \in TableIds : AddTable(s, t)
    \/ \E t \in TableIds, c \in ColumnIds : AddColumn(t, c)
    \/ \E c \in CollsOf("Columns"), v \in Columns :
          Insert(c, "z", Object(v))
    \/ \E o \in ObjIds : AsDict(o)

SpecGraph == Init /\ [][GraphNext]_vars

\* ============================================================ claims C21, C23, C24, C28
\* the positional arguments of the last call that are views
PositionalViews ==
    SelectSeq(slast.args,
              LAMBDA v : v.type = "object" /\ objs[v.id].cls = "View")

\* C21: Schema(name, child, ...) given views positionally returns, and each
\* view is in schema.views under its key with its schema back-reference
\* being the new schema.
C21_SchemaRegistersChildren ==
    (slast.op = "Schema" /\ Len(PositionalViews) > 0
       /\ Len(PositionalViews) = Len(slast.args) /\ slast.kwargs = <<>>)
      => /\ slast.raised = "none"
         /\ slast.target # 0
         /\ \A i \in DOMAIN PositionalViews :
               /\ \E k \in {"", "v"} :
                     holds(colls[get_attr(objs, slast.target, "views")
                                     .value.id].fields,
                           k, PositionalViews[i])
               /\ get_attr(objs, PositionalViews[i].id, "schema").value
                     = Object(slast.target)

\* the collections of class cls that hold object o
holders(cls, o) ==
    {c \in CollsOf(cls) :
        \E i \in DOMAIN colls[c].fields : colls[c].fields[i].value = Object(o)}

\* a back-reference of a table or a column that is assigned stays what it is,
\* and an add_table / add_column that raises IllegalOperation leaves every
\* collection as it was
BackReferencesFixed ==
    [][/\ \A o \in TableIds \cup ColumnIds, a \in {"schema", "table", "parent"} :
            (a \in DOMAIN objs[o].dict /\ objs[o].cls # "none")
              => /\ a \in DOMAIN objs'[o].dict
                 /\ objs'[o].dict[a] = objs[o].dict[a]
       /\ (slast' # slast /\ slast'.op \in {"add_table", "add_column"}
             /\ slast'.raised = "IllegalOperation")
            => colls' = colls]_vars

\* C23: single parent: in every reachable state a table is in at most one
\* schema's tables and a column in at most one table's columns.
C23_SingleParent ==
    /\ \A t \in TableIds : Cardinality(holders("Tables", t)) <= 1
    /\ \A c \in ColumnIds : Cardinality(holders("Columns", c)) <= 1

\* C28: back-reference and membership agree: a column whose table is t is
\* in t.columns and a table whose schema is s is in s.tables, also after an
\* add_column / add_table that raised.
C28_BackReferenceIsMembership ==
    /\ \A c \in Columns :
          "table" \in DOMAIN objs[c].dict
            => \E i \in DOMAIN columns_of(objs, colls, objs[c].dict["table"].id) :
                 columns_of(objs, colls, objs[c].dict["table"].id)[i].value
                   = Object(c)
    /\ \A t \in Tables :
          "schema" \in DOMAIN objs[t].dict
            => \E i \in DOMAIN tables_of(objs, colls, objs[t].dict["schema"].id) :
                 tables_of(objs, colls, objs[t].dict["schema"].id)[i].value
                   = Object(t)

\* the value that the keys of path lead to, from value
RECURSIVE resolve(_, _)
resolve(value, path) ==
    IF path = <<>> THEN value
    ELSE IF value.type = "object"
    THEN resolve(objs[value.id].dict[Head(path)], Tail(path))
    ELSE resolve((CHOOSE f \in {colls[value.id].fields[i] :
                                   i \in DOMAIN colls[value.id].fields} :
                     f.key = Head(path)).value,
                 Tail(path))
\* the attributes that refer to an entity's parent
BackReferences == {"schema", "table", "parent"}
\* in the export of root, the key at position i of a leaf's path is a
\* back-reference of a table, a column or a view
is_back_reference(root, path, i) ==
    /\ path[i] \in BackReferences
    /\ resolve(root, SubSeq(path, 1, i - 1)).type = "object"
    /\ objs[resolve(root, SubSeq(path, 1, i - 1)).id].cls
          \in {"Table", "Column", "View"}

\* C24: as_dict of an object terminates; a back-reference of a table or a
\* column to its parent is exported as the parent's name and nothing below
\* it; and for a schema, result["tables"][k]["name"] is the name of the
\* table registered under k.
C24_ExportSubstitutesParent ==
    slast.op = "as_dict" =>
        LET exported(root, d) ==
                /\ \A e \in d :
                      /\ e.value # RecursionError
                      /\ \A i \in DOMAIN e.path :
                            is_back_reference(root, e.path, i)
                              => /\ i = Len(e.path)
                                 /\ e.value
                                      = objs[resolve(root, e.path).id]
                                            .dict["name"]
                /\ objs[root.id].cls = "Schema"
                     => \A i \in DOMAIN tables_of(objs, colls, root.id) :
                          [path |-> <<"tables",
                                      tables_of(objs, colls, root.id)[i].key,
                                      "name">>,
                           value |-> objs[tables_of(objs, colls, root.id)[i]
                                              .value.id].dict["name"]] \in d
        IN /\ slast.raised = "none"
           /\ exported(Object(slast.target),
                       as_dict(objs, colls, Object(slast.target), MaxDepth))

\* C24 witness: a schema with a table that has a column has been exported.
C24_Witness ==
    /\ slast.op = "as_dict" /\ slast.raised = "none"
    /\ objs[slast.target].cls = "Schema"
    /\ \E i \in DOMAIN tables_of(objs, colls, slast.target) :
          Len(columns_of(objs, colls,
                         tables_of(objs, colls, slast.target)[i].value.id)) > 0

\* ============================================================ constraints
\* OnConflict._check_resolution: value.upper() must be in ON_CONFLICT
check_resolution(value) ==
    IF value.type # "str"
    THEN [raised |-> "AttributeError", value |-> value]
    ELSE IF upper(value.text) \notin ON_CONFLICT
    THEN [raised |-> "ConstraintError", value |-> value]
    ELSE [raised |-> "none", value |-> Str(upper(value.text))]

\* PrimaryKey.__init__(name, **kwargs): name, order, the conflict
\* resolution and autoincrement are assigned in this order; a keyword that
\* is none of them is ignored.  Nothing refers to an object whose
\* constructor raised.
PrimaryKey_init(heap, o, name, kwargs) ==
    LET blank == [heap EXCEPT ![o] = [cls |-> "PrimaryKey", dict |-> EmptyDict]]
        finished(done) ==
            IF done.raised # "none"
            THEN [heap |-> heap, raised |-> done.raised]
            ELSE done
        resolved(first, algorithm) ==
            IF first.raised # "none"
            THEN [heap |-> heap, raised |-> first.raised]
            ELSE IF algorithm.raised # "none"
            THEN [heap |-> heap, raised |-> algorithm.raised]
            ELSE finished(set_attrs(first.heap, o,
                     <<[key |-> "on_conflict", value |-> algorithm.value],
                       [key |-> "autoincrement",
                        value |-> kw_value(kwargs, "autoincrement",
                                           Bool(FALSE))]>>))
    IN resolved(set_attrs(blank, o,
                   <<[key |-> "name", value |-> name],
                     [key |-> "order",
                      value |-> kw_value(kwargs, "order", Str("ASC"))]>>),
                check_resolution(kw_value(kwargs, "on_conflict",
                                          Str("ABORT"))))

\* the keyword arguments offered to PrimaryKey(...): each keyword absent or
\* with one of its values, some accepted and some not
OrderValues ==
    {Str("ASC"), Str("DESC"), Str("asc"), Str("sideways"), Str(""),
     IntValue(5)}
ResolutionValues == {Str("fail"), Str("REPLACE"), Str("nope"), IntValue(5)}
IncrementValues == {Bool(TRUE), IntValue(5)}
Keyword(name, offered) ==
    {<<>>} \cup {<<[key |-> name, value |-> v]>> : v \in offered}
KeyKwargs ==
    {a \o b \o c : a \in Keyword("order", OrderValues),
                   b \in Keyword("on_conflict", ResolutionValues),
                   c \in Keyword("autoincrement", IncrementValues)}

\* PrimaryKey(name, **kwargs)
NewPrimaryKey(name, kwargs) ==
    /\ fresh(KeyIds, objs) # 0
    /\ \E o \in {fresh(KeyIds, objs)} :
       \E r \in {PrimaryKey_init(objs, o, name, kwargs)} :
          /\ objs' = r.heap
          /\ slast' = [NoSchemaCall EXCEPT
                         !.op = "PrimaryKey", !.value = name,
                         !.kwargs = kwargs, !.raised = r.raised,
                         !.target = IF r.raised = "none" THEN o ELSE 0]
    /\ UNCHANGED <<colls, evars, cvars>>

\* Primary keys are constructed and their order is assigned again.
KeyNext ==
    \/ \E name \in {Str("pk"), Str("")}, kwargs \in KeyKwargs :
          NewPrimaryKey(name, kwargs)
    \/ \E o \in KeyIds, value \in SetValues("str") :
          SetAttr(o, "order", value)

SpecKey == Init /\ [][KeyNext]_vars

\* ============================================================ claim C31
\* the primary keys constructed so far
PrimaryKeys == {k \in KeyIds : Allocated(k)}

\* C31: the order stored on every constructed PrimaryKey is ASC or DESC,
\* ASC when none was given, and a PrimaryKey(...) given any other order
\* raises.
C31_OrderEnumerated ==
    /\ \A k \in PrimaryKeys : objs[k].dict["order"].text \in ORDER
    /\ slast.op = "PrimaryKey" =>
          /\ (slast.raised = "none" /\ ~kw_has(slast.kwargs, "order"))
                => objs[slast.target].dict["order"] = Str("ASC")
          /\ (kw_has(slast.kwargs, "order")
                /\ kw_value(slast.kwargs, "order", NoneValue)
                      \notin {Str(x) : x \in ORDER})
                => slast.raised # "none"

\* ============================================================ cursors
\* SQLiteCursor.close(): Cursor.close(), then _is_closed = True
cursor_close(cu) == [cu EXCEPT !.st = "closed"]

\* SQLiteCursor.is_closed()
is_closed(cu) == cu.st = "closed"

\* the numbers of the next count rows of the result, as far as there are any
next_rows(cu, count) ==
    [i \in 1..(IF cu.rows - cu.pos < count THEN cu.rows - cu.pos ELSE count)
        |-> cu.pos + i]

\* SQLiteCursor.fetchone: Cursor.fetchone() raises on a closed cursor;
\* finally: self.close()
fetchone(cu) ==
    IF is_closed(cu)
    THEN [cursor |-> cursor_close(cu), raised |-> "ProgrammingError",
          rows |-> <<>>]
    ELSE [cursor |-> cursor_close([cu EXCEPT !.pos = @ + Len(next_rows(cu, 1))]),
          raised |-> "none", rows |-> next_rows(cu, 1)]

\* a fetchmany that never closes the cursor
fetchmany_leaving_open(cu, size) ==
    IF is_closed(cu)
    THEN [cursor |-> cu, raised |-> "ProgrammingError", rows |-> <<>>]
    ELSE LET count == IF size = NoSize THEN cu.arraysize ELSE size
         IN [cursor |-> [cu EXCEPT !.pos = @ + Len(next_rows(cu, count))],
             raised |-> "none", rows |-> next_rows(cu, count)]

\* SQLiteCursor.fetchmany(size=...): Cursor.fetchmany raises on a closed
\* cursor; finally: if len(rows) == 0: self.close()
fetchmany(cu, size) ==
    IF is_closed(cu)
    THEN [cursor |-> cursor_close(cu), raised |-> "ProgrammingError",
          rows |-> <<>>]
    ELSE LET count == IF size = NoSize THEN cu.arraysize ELSE size
             read == [cu EXCEPT !.pos = @ + Len(next_rows(cu, count))]
         IN [cursor |-> IF Len(next_rows(cu, count)) = 0
                        THEN cursor_close(read) ELSE read,
             raised |-> "none", rows |-> next_rows(cu, count)]

\* SQLiteCursor.fetchall: Cursor.fetchall() raises on a closed cursor;
\* finally: self.close()
fetchall(cu) ==
    IF is_closed(cu)
    THEN [cursor |-> cursor_close(cu), raised |-> "ProgrammingError",
          rows |-> <<>>]
    ELSE [cursor |-> cursor_close([cu EXCEPT !.pos = cu.rows]),
          raised |-> "none", rows |-> next_rows(cu, cu.rows)]

\* ------------------------------------------------------------ cursor actions
\* SQLite.query(sql, arraysize=...) returns a new cursor over n rows
Query(c, n, arraysize) ==
    /\ cursors[c].st = "none"
    /\ \A d \in CursorIds : d < c => cursors[d].st # "none"
    /\ cursors' = [cursors EXCEPT ![c] = [st |-> "open", rows |-> n,
                                          pos |-> 0, arraysize |-> arraysize]]
    /\ clast' = [NoFetch EXCEPT !.op = "query", !.c = c]
    /\ UNCHANGED <<evars, svars>>

Fetchone(c) ==
    /\ cursors[c].st # "none"
    /\ \E r \in {fetchone(cursors[c])} :
          /\ cursors' = [cursors EXCEPT ![c] = r.cursor]
          /\ clast' = [op |-> "fetchone", c |-> c, size |-> NoSize,
                       raised |-> r.raised, rows |-> r.rows,
                       before |-> cursors[c].pos]
    /\ UNCHANGED <<evars, svars>>

Fetchmany(c, size) ==
    /\ cursors[c].st # "none"
    /\ \E r \in {fetchmany(cursors[c], size)} :
          /\ cursors' = [cursors EXCEPT ![c] = r.cursor]
          /\ clast' = [op |-> "fetchmany", c |-> c, size |-> size,
                       raised |-> r.raised, rows |-> r.rows,
                       before |-> cursors[c].pos]
    /\ UNCHANGED <<evars, svars>>

Fetchall(c) ==
    /\ cursors[c].st # "none"
    /\ \E r \in {fetchall(cursors[c])} :
          /\ cursors' = [cursors EXCEPT ![c] = r.cursor]
          /\ clast' = [op |-> "fetchall", c |-> c, size |-> NoSize,
                       raised |-> r.raised, rows |-> r.rows,
                       before |-> cursors[c].pos]
    /\ UNCHANGED <<evars, svars>>

\* cursor.close() by the caller
CursorClose(c) ==
    /\ cursors[c].st # "none"
    /\ cursors' = [cursors EXCEPT ![c] = cursor_close(@)]
    /\ clast' = [NoFetch EXCEPT !.op = "close", !.c = c,
                                !.before = cursors[c].pos]
    /\ UNCHANGED <<evars, svars>>

\* The cursors that queries return and the calls made on them.
CursorNext ==
    \/ \E c \in CursorIds, n \in 0..MaxRows, arraysize \in {1, 2} :
          Query(c, n, arraysize)
    \/ \E c \in CursorIds : Fetchone(c)
    \/ \E c \in CursorIds, size \in {NoSize} \cup (1..MaxRows) :
          Fetchmany(c, size)
    \/ \E c \in CursorIds : Fetchall(c)
    \/ \E c \in CursorIds : CursorClose(c)

SpecCursor == Init /\ [][CursorNext]_vars

\* ============================================================ claims C25, C30
FetchOps == {"fetchone", "fetchmany", "fetchall"}

C30_UnreadRowsKeepOpen ==
    (clast.op \in {"fetchone", "fetchmany"} /\ clast.raised = "none"
       /\ cursors[clast.c].pos < cursors[clast.c].rows)
      => /\ ~is_closed(cursors[clast.c])
         /\ clast.rows = [i \in 1..Len(clast.rows) |-> clast.before + i]

\* ============================================================ claim C29
\* C29: a managed-use block keeps the manager's connection attached and open
\* up to its own exit: when a thread leaves a nested block, every manager
\* of a block it is still inside, whose connection was open, still has its
\* connection open.
C29_NestedBlockKeepsConnection ==
    [][\A t \in Threads :
          (Len(blocks'[t]) < Len(blocks[t]) /\ Len(blocks'[t]) > 0)
            => \A i \in DOMAIN blocks'[t] :
                  mgr[blocks'[t][i].m].conn = "open"
                    => mgr'[blocks'[t][i].m].conn = "open"]_vars

====
